---- MODULE Spec2Model ----
(***************************************************************************)
(* A model of the PDF chord-sheet extraction of services/geminiService.ts: *)
(* mergeAdjacentTextItems, classifyLine, isChordToken, extractTextFromPdf  *)
(* and the PDF branch of parseSongFromFile.                                *)
(*                                                                         *)
(* Text is a sequence of one-character strings ("Dm" is <<"D","m">>), so   *)
(* that trimming, the regular expressions and the per-character placement  *)
(* are computed character by character as the code computes them.          *)
(* Coordinates (transform[4] = x, transform[5] = y, width) are integers;   *)
(* quotients such as width / length are kept exact by cross-multiplying.   *)
(***************************************************************************)
EXTENDS Integers, Sequences, FiniteSets, TLC

VARIABLES
    clsItems,     \* classifyLine: the lineItems argument of the call
    clsResult,    \* classifyLine: the value returned ("NONE" before the call)
    pc,           \* parseSongFromFile / extractTextFromPdf: position in the code
    numPages,     \* pdf.numPages
    p,            \* the page loop's counter
    fullText,     \* extractTextFromPdf: the text accumulated so far
    lines,        \* classifiedLines of the current page
    i,            \* the line loop's counter
    pageText,     \* the text of the current page so far
    processed,    \* processedIndices
    lastStep,     \* what the last iteration of the line loop did
    outcome,      \* how the promise of extractTextFromPdf settled
    parts,        \* parseSongFromFile: the parts handed to generateContent
    thrown,       \* parseSongFromFile: the error it rethrew
    clsLog,       \* classifyLine: the calls made so far, [items, type] each
    mrgItems,     \* mergeAdjacentTextItems: the items argument of the call
    mrgSorted,    \* mergeAdjacentTextItems: the items sorted by x
    mrgIndex,     \* mergeAdjacentTextItems: the loop's counter i
    mrgMerged,    \* mergeAdjacentTextItems: the tokens pushed so far
    mrgCurrent,   \* mergeAdjacentTextItems: the accumulator
    mrgStep,      \* mergeAdjacentTextItems: what the last iteration did
    grpItems,     \* the line grouper: allItems, the tokens of a page
    grpLines,     \* the line grouper: classifiedLines (empty before it ran)
    rndLine,      \* a line that is not part of a pair
    rndText,      \* what it appends to pageText (empty before)
    doc,          \* extractTextFromPdf: the pages of the file, a list of items each
    pairChords,   \* the pair branch: pass1_chords
    pairLyricItems, \* the pair branch: pass1_lyricItems
    pairPc,       \* the pair branch: position in the code
    pairK,        \* the pair branch: index of the item the running loop is at
    pairString,   \* the pair branch: lyricString
    pairMap,      \* the pair branch: indexToXMap
    pairHasLast,  \* the pair branch: lastItemEndX !== -Infinity
    pairEndX,     \* the pair branch: lastItemEndX when it is a number
    pairCursor,   \* the pair branch: lyricStringCursor
    pairCols,     \* the pair branch: where the scan of each chord so far stopped
    pairError,    \* the pair branch: the error thrown (NoError when none)
    pairLast,     \* the pair branch: what the last iteration of the lyric loop did
    songs,        \* App: the songs, newest first (of a song, its id)
    sets,         \* App: the sets, newest first, [id, songIds] each
    activeSongId, \* App: the id of the song shown (0 for null)
    activeSetId,  \* App: the id of the set the song was selected from (0 for null)
    isPerformanceMode,   \* App
    performanceContext,  \* App: [setId, songIndex] (NoContext for null)
    now,          \* Date.now()
    appLast,      \* App: the last handler called
    chordBook,    \* useChordBook: the chord names of the book
    bookLog,      \* useChordBook: the calls of addChord so far, [chordName, prev, next] each
    micSupported, \* usePitchDetector: navigator.mediaDevices.getUserMedia exists
    micMounted,   \* usePitchDetector: the component using the hook is mounted
    isListening,  \* usePitchDetector
    micError,     \* usePitchDetector: error is not null
    micPending,   \* usePitchDetector: the calls of startListening awaiting getUserMedia
    micStreams,   \* usePitchDetector: of each stream acquired, whether its tracks are live
    audioContexts, \* usePitchDetector: of each AudioContext created, its state
    streamRef,    \* usePitchDetector: streamRef.current, a place of micStreams (0 for null)
    audioContextRef, \* usePitchDetector: audioContextRef.current, a place of audioContexts
    micStopped    \* usePitchDetector: stopListening has run and startListening was not called since

clsVars == <<clsItems, clsResult>>
pdfVars == <<pc, numPages, p, fullText, lines, i, pageText, processed,
             lastStep, outcome, parts, thrown>>
callVars == <<clsLog>>
mergeVars == <<mrgItems, mrgSorted, mrgIndex, mrgMerged, mrgCurrent, mrgStep>>
groupVars == <<grpItems, grpLines>>
renderVars == <<rndLine, rndText>>
extractVars == <<doc>>
pairVars == <<pairChords, pairLyricItems, pairPc, pairK, pairString, pairMap,
              pairHasLast, pairEndX, pairCursor, pairCols, pairError, pairLast>>
appVars == <<songs, sets, activeSongId, activeSetId, isPerformanceMode, performanceContext,
             now, appLast>>

bookVars == <<chordBook, bookLog>>
micVars == <<micSupported, micMounted, isListening, micError, micPending, micStreams,
             audioContexts, streamRef, audioContextRef, micStopped>>

\* The state of the components and hooks.
hookVars == <<appVars, bookVars, micVars>>

\* The variables of the runs of single stages.
stageVars == <<callVars, mergeVars, groupVars, renderVars, extractVars, pairVars>>

vars == <<clsVars, pdfVars, stageVars, hookVars>>

-----------------------------------------------------------------------------
(* Characters and strings                                                  *)

UpperLetters == <<"A","B","C","D","E","F","G","H","I","J","K","L","M",
                  "N","O","P","Q","R","S","T","U","V","W","X","Y","Z">>
LowerLetters == <<"a","b","c","d","e","f","g","h","i","j","k","l","m",
                  "n","o","p","q","r","s","t","u","v","w","x","y","z">>

Digits == {"0","1","2","3","4","5","6","7","8","9"}

\* The character class [A-G].
RootNotes == {UpperLetters[k] : k \in 1..7}

\* The character class [h-zH-Z].
LyricLetters == {LowerLetters[k] : k \in 8..26} \cup {UpperLetters[k] : k \in 8..26}

\* Lower-casing, as the i flag of a regular expression compares letters.
Lower(c) ==
    IF \E k \in 1..26 : UpperLetters[k] = c
    THEN LowerLetters[CHOOSE k \in 1..26 : UpperLetters[k] = c]
    ELSE c

NL == "\n"

\* The white space String.prototype.trim removes, of the characters used here.
IsSpace(c) == c \in {" ", NL}

RECURSIVE TrimStart(_)
TrimStart(s) ==
    IF s # <<>> /\ IsSpace(Head(s)) THEN TrimStart(Tail(s)) ELSE s

RECURSIVE TrimEnd(_)
TrimEnd(s) ==
    IF s # <<>> /\ IsSpace(s[Len(s)]) THEN TrimEnd(SubSeq(s, 1, Len(s) - 1)) ELSE s

\* String.prototype.trim
Trim(s) == TrimEnd(TrimStart(s))

\* The literal lit stands in s at position pos.
HasAt(s, pos, lit) ==
    /\ pos + Len(lit) - 1 <= Len(s)
    /\ \A k \in 1..Len(lit) : s[pos + k - 1] = lit[k]

\* The same, letters compared without case.
HasAtNoCase(s, pos, lit) ==
    /\ pos + Len(lit) - 1 <= Len(s)
    /\ \A k \in 1..Len(lit) : Lower(s[pos + k - 1]) = lit[k]

\* Array.prototype.join('') of a list of strings.
RECURSIVE Join(_)
Join(ss) == IF ss = <<>> THEN <<>> ELSE Head(ss) \o Join(Tail(ss))

-----------------------------------------------------------------------------
(* isChordToken: the chord grammar, matched as the regular expression      *)
(* matches it. A set of positions holds every place in s the match can     *)
(* have reached, so an optional group that can match in two ways is        *)
(* followed both ways, as backtracking does.                               *)

\* The positions reached from Ps by reading one of the literals Lits.
AfterLits(s, Ps, Lits) ==
    UNION { { q + Len(lit) : lit \in { l \in Lits : HasAt(s, q, l) } } : q \in Ps }

\* The positions reached from Ps by reading one character of the class Cls.
AfterClass(s, Ps, Cls) ==
    { q + 1 : q \in { r \in Ps : r <= Len(s) /\ s[r] \in Cls } }

\* [0-9]*
AfterDigitsStar(s, Ps) ==
    { q \in 1..(Len(s) + 1) :
        \E r \in Ps : r <= q /\ \A k \in r..(q - 1) : s[k] \in Digits }

\* [0-9]+
AfterDigitsPlus(s, Ps) == AfterDigitsStar(s, AfterClass(s, Ps, Digits))

Accidentals == { <<"#","#">>, <<"#">>, <<"b">>, <<"b","b">> }

Qualities ==
    { <<"m","a","j">>, <<"M">>, <<"m">>, <<"m","i","n">>, <<"-">>,
      <<"a","u","g">>, <<"+">>, <<"d","i","m">>, <<"°">>, <<"s","u","s">>,
      <<"a","d","d">>, <<"m","7","b","5">>, <<"ø">> }

\* An optional group of literals: (l1|l2|...)?
OptLits(s, Ps, Lits) == Ps \cup AfterLits(s, Ps, Lits)

\* (sus[0-9])?
OptSus(s, Ps) == Ps \cup AfterClass(s, AfterLits(s, Ps, {<<"s","u","s">>}), Digits)

\* (\(?(b|#)[0-9]+\)?)?
OptAlteration(s, Ps) ==
    Ps \cup OptLits(s, AfterDigitsPlus(s, AfterLits(s, OptLits(s, Ps, {<<"(">>}),
                                                   {<<"b">>, <<"#">>})),
                    {<<")">>})

\* (\/[A-G](##|#|b|bb)?)?
OptBass(s, Ps) ==
    Ps \cup OptLits(s, AfterClass(s, AfterLits(s, Ps, {<<"/">>}), RootNotes), Accidentals)

\* /^[A-G](##|#|b|bb)?(maj|M|m|min|-|aug|\+|dim|°|sus|add|m7b5|ø)?[0-9]*
\*   (sus[0-9])?(\(?(b|#)[0-9]+\)?)?(\/[A-G](##|#|b|bb)?)?$/
ChordRegexTest(s) ==
    (Len(s) + 1) \in
        OptBass(s,
          OptAlteration(s,
            OptSus(s,
              AfterDigitsStar(s,
                OptLits(s,
                  OptLits(s, AfterClass(s, {1}, RootNotes), Accidentals),
                  Qualities)))))

MaxChordLen == 15

isChordToken(text) ==
    LET trimmed == Trim(text)
    IN  /\ trimmed # <<>>
        /\ ~(Len(trimmed) > MaxChordLen)
        /\ ChordRegexTest(trimmed)

-----------------------------------------------------------------------------
(* classifyLine                                                            *)

StripWords == { <<"m","i","n">>, <<"m","a","j">>, <<"a","u","g">>, <<"d","i","m">>,
                <<"s","u","s">>, <<"a","d","d">>, <<"f","l","a","t">> }

\* token.replace(/min|maj|aug|dim|sus|add|flat/ig, ''): one pass from the left,
\* the text after a removed word is not looked at again with what precedes it.
RECURSIVE StripFrom(_, _)
StripFrom(s, pos) ==
    IF pos > Len(s) THEN <<>>
    ELSE IF \E w \in StripWords : HasAtNoCase(s, pos, w)
         THEN StripFrom(s, pos + Len(CHOOSE w \in StripWords : HasAtNoCase(s, pos, w)))
         ELSE <<s[pos]>> \o StripFrom(s, pos + 1)

StripChordWords(s) == StripFrom(s, 1)

\* /[h-zH-Z]/.test(s)
HasLyricLetter(s) == \E k \in 1..Len(s) : s[k] \in LyricLetters

\* /^\[.*\]$/ on a string without line terminators
IsBracketed(s) == Len(s) >= 2 /\ s[1] = "[" /\ s[Len(s)] = "]"

\* lineItems.map(item => item.str.trim()).filter(Boolean)
RECURSIVE Terms(_)
Terms(items) ==
    IF items = <<>> THEN <<>>
    ELSE LET t == Trim(Head(items).str)
         IN  (IF t = <<>> THEN <<>> ELSE <<t>>) \o Terms(Tail(items))

\* tokens.filter(isChordToken).length
ChordCount(tokens) == Cardinality({ k \in 1..Len(tokens) : isChordToken(tokens[k]) })

\* tokens.some(token => /[h-zH-Z]/.test(token.replace(...)))
HasLyrics(tokens) ==
    \E k \in 1..Len(tokens) : HasLyricLetter(StripChordWords(tokens[k]))

\* chordRatio > num / den, for chordRatio = chords / total and total > 0
RatioAbove(chords, total, num, den) == chords * den > num * total

ClassifyByRatioLowFirst(tokens, chords) ==
    IF RatioAbove(chords, Len(tokens), 2, 10) THEN "CHORD"
    ELSE IF HasLyrics(tokens) THEN "LYRIC"
    ELSE IF IsBracketed(Trim(Join(tokens))) THEN "UNKNOWN"
    ELSE "LYRIC"

ClassifyByRatioLax(tokens, chords) ==
    IF chords * 10 >= 7 * Len(tokens) THEN "CHORD"
    ELSE IF HasLyrics(tokens) THEN "LYRIC"
    ELSE IF RatioAbove(chords, Len(tokens), 2, 10) THEN "CHORD"
    ELSE IF IsBracketed(Trim(Join(tokens))) THEN "UNKNOWN"
    ELSE "LYRIC"

\* classifyLine from `if (chordRatio > 0.7)` on, for a non-empty list of tokens
\* of which `chords` are chord tokens.
ClassifyByRatio(tokens, chords) ==
    IF RatioAbove(chords, Len(tokens), 7, 10) THEN "CHORD"
    ELSE IF HasLyrics(tokens) THEN "LYRIC"
    ELSE IF RatioAbove(chords, Len(tokens), 2, 10) THEN "CHORD"
    ELSE IF IsBracketed(Trim(Join(tokens))) THEN "UNKNOWN"
    ELSE "LYRIC"

ClassifyTokens(tokens) ==
    IF tokens = <<>> THEN "UNKNOWN" ELSE ClassifyByRatio(tokens, ChordCount(tokens))

classifyLine(lineItems) ==
    IF lineItems = <<>> THEN "UNKNOWN" ELSE ClassifyTokens(Terms(lineItems))

-----------------------------------------------------------------------------
(* The lines classifyLine is called on: up to MaxTerms items with any text *)
(* of ItemTexts, followed by up to MaxPad copies of one padding text (long *)
(* lines are needed to bring chordRatio to exactly 7/10 and 2/10).         *)

Str_G       == <<"G">>
Str_Dm      == <<"D","m">>
Str_is      == <<"i","s">>
Str_great   == <<"g","r","e","a","t">>
Str_Chorus  == <<"[","C","h","o","r","u","s","]">>
Str_BrA     == <<"[","A","]">>
Str_dash    == <<"-">>
Str_blank   == <<" ">>

ItemTexts == { Str_Dm, Str_is, Str_great, Str_Chorus, Str_BrA, Str_dash, Str_blank }
PadTexts  == { Str_G, Str_dash }

MaxTerms == 3
MaxPad   == 7

\* A PdfTextItem: str, transform[4], transform[5], width.
Item(str, x, y, width) == [str |-> str, x |-> x, y |-> y, width |-> width]

RECURSIVE Repeat(_, _)
Repeat(e, n) == IF n = 0 THEN <<>> ELSE <<e>> \o Repeat(e, n - 1)

SeqsUpTo(S, n) == UNION { [1..k -> S] : k \in 0..n }

ClsLines ==
    { [k \in 1..Len(ts) |-> Item(ts[k], 10 * k, 0, 5)] :
        ts \in { base \o Repeat(pad, n) :
                   base \in SeqsUpTo(ItemTexts, MaxTerms),
                   pad \in PadTexts, n \in 0..MaxPad } }

-----------------------------------------------------------------------------
(* mergeAdjacentTextItems                                                  *)

\* item.str.length || 1
LenOr1(str) == IF Len(str) = 0 THEN 1 ELSE Len(str)

\* Array.prototype.sort((a, b) => a.x - b.x): stable, ascending x.
RECURSIVE InsertByX(_, _)
InsertByX(sorted, item) ==
    IF sorted = <<>> THEN <<item>>
    ELSE IF sorted[Len(sorted)].x <= item.x THEN Append(sorted, item)
    ELSE Append(InsertByX(SubSeq(sorted, 1, Len(sorted) - 1), item), sorted[Len(sorted)])

\* The items as they are, unsorted.
SortByXNone(items) == items

RECURSIVE SortByX(_)
SortByX(items) ==
    IF items = <<>> THEN <<>>
    ELSE InsertByX(SortByX(SubSeq(items, 1, Len(items) - 1)), items[Len(items)])

ShouldMergeLax(currentItem, nextItem) ==
    LET gap == nextItem.x - (currentItem.x + currentItem.width)
    IN  gap >= -2 /\ gap * 2 * LenOr1(currentItem.str) <= currentItem.width

\* gap >= -2 && gap < (currentItem.width / (currentItem.str.length || 1)) * 0.5
ShouldMerge(currentItem, nextItem) ==
    LET gap == nextItem.x - (currentItem.x + currentItem.width)
    IN  gap >= -2 /\ gap * 2 * LenOr1(currentItem.str) < currentItem.width

\* The loop of mergeAdjacentTextItems from index k on: merged so far, and the
\* accumulator currentItem.
RECURSIVE MergeLoop(_, _, _, _)
MergeLoop(sortedItems, k, merged, currentItem) ==
    IF k > Len(sortedItems) THEN Append(merged, currentItem)
    ELSE LET nextItem == sortedItems[k]
         IN  IF ShouldMerge(currentItem, nextItem)
             THEN MergeLoop(sortedItems, k + 1, merged,
                            [currentItem EXCEPT
                               !.str = currentItem.str \o nextItem.str,
                               !.width = (nextItem.x + nextItem.width) - currentItem.x])
             ELSE MergeLoop(sortedItems, k + 1, Append(merged, currentItem), nextItem)

mergeAdjacentTextItems(items) ==
    IF Len(items) < 2 THEN items
    ELSE LET sortedItems == SortByX(items)
         IN  MergeLoop(sortedItems, 2, <<>>, sortedItems[1])

-----------------------------------------------------------------------------
(* extractTextFromPdf: grouping into lines and classification              *)

Y_TOLERANCE == 5
PAIR_DISTANCE == 30

Abs(n) == IF n < 0 THEN -n ELSE n

RECURSIVE GroupLoopClosest(_, _, _)
GroupLoopClosest(allItems, k, rawLines) ==
    IF k > Len(allItems) THEN rawLines
    ELSE LET item  == allItems[k]
             found == { b \in 1..Len(rawLines) : Abs(rawLines[b].y - item.y) < Y_TOLERANCE }
         IN  IF found # {}
             THEN LET b == CHOOSE c \in found : \A d \in found :
                                Abs(rawLines[c].y - item.y) <= Abs(rawLines[d].y - item.y)
                  IN  GroupLoopClosest(allItems, k + 1,
                                       [rawLines EXCEPT ![b].items = Append(@, item)])
             ELSE GroupLoopClosest(allItems, k + 1,
                                   Append(rawLines, [y |-> item.y, items |-> <<item>>]))

RECURSIVE GroupLoopLax(_, _, _)
GroupLoopLax(allItems, k, rawLines) ==
    IF k > Len(allItems) THEN rawLines
    ELSE LET item  == allItems[k]
             found == { b \in 1..Len(rawLines) : Abs(rawLines[b].y - item.y) <= Y_TOLERANCE }
         IN  IF found # {}
             THEN LET b == CHOOSE c \in found : \A d \in found : c <= d
                  IN  GroupLoopLax(allItems, k + 1,
                                   [rawLines EXCEPT ![b].items = Append(@, item)])
             ELSE GroupLoopLax(allItems, k + 1,
                               Append(rawLines, [y |-> item.y, items |-> <<item>>]))

\* rawLines, a Map in insertion order: a sequence of [y, items].
RECURSIVE GroupLoop(_, _, _)
GroupLoop(allItems, k, rawLines) ==
    IF k > Len(allItems) THEN rawLines
    ELSE LET item  == allItems[k]
             found == { b \in 1..Len(rawLines) : Abs(rawLines[b].y - item.y) < Y_TOLERANCE }
         IN  IF found # {}
             THEN LET b == CHOOSE c \in found : \A d \in found : c <= d
                  IN  GroupLoop(allItems, k + 1,
                                [rawLines EXCEPT ![b].items = Append(@, item)])
             ELSE GroupLoop(allItems, k + 1,
                            Append(rawLines, [y |-> item.y, items |-> <<item>>]))

RECURSIVE InsertByYAsc(_, _)
InsertByYAsc(sorted, e) ==
    IF sorted = <<>> THEN <<e>>
    ELSE IF sorted[Len(sorted)].y <= e.y THEN Append(sorted, e)
    ELSE Append(InsertByYAsc(SubSeq(sorted, 1, Len(sorted) - 1), e), sorted[Len(sorted)])

\* Array.prototype.sort((a, b) => b[0] - a[0]): stable, descending y.
RECURSIVE InsertByYDesc(_, _)
InsertByYDesc(sorted, e) ==
    IF sorted = <<>> THEN <<e>>
    ELSE IF sorted[Len(sorted)].y >= e.y THEN Append(sorted, e)
    ELSE Append(InsertByYDesc(SubSeq(sorted, 1, Len(sorted) - 1), e), sorted[Len(sorted)])

RECURSIVE SortByYDesc(_)
SortByYDesc(entries) ==
    IF entries = <<>> THEN <<>>
    ELSE InsertByYDesc(SortByYDesc(SubSeq(entries, 1, Len(entries) - 1)),
                       entries[Len(entries)])

\* classifiedLines of a page, from its merged items.
ClassifiedLines(allItems) ==
    LET entries == SortByYDesc(GroupLoop(allItems, 1, <<>>))
    IN  [k \in 1..Len(entries) |->
           LET items == SortByX(entries[k].items)
           IN  [y |-> entries[k].y, items |-> items, type |-> classifyLine(items)]]

isPairLax(all, k) ==
    /\ all[k].type = "CHORD"
    /\ k + 1 <= Len(all)
    /\ all[k + 1].type = "LYRIC"
    /\ Abs(all[k].y - all[k + 1].y) <= PAIR_DISTANCE

\* isPair, for currentLine = classifiedLines[k] and nextLine = classifiedLines[k + 1]
isPair(all, k) ==
    /\ all[k].type = "CHORD"
    /\ k + 1 <= Len(all)
    /\ all[k + 1].type = "LYRIC"
    /\ Abs(all[k].y - all[k + 1].y) < PAIR_DISTANCE

-----------------------------------------------------------------------------
(* extractTextFromPdf: the reconstruction of a (chord line, lyric line)    *)
(* pair. An entry of indexToXMap is the quotient n / d, kept as [n, d].    *)

\* a < x, for the quotient a and the integer x
QLess(a, x) == a.n < x * a.d

\* a >= x
QAtLeast(a, x) == ~QLess(a, x)

\* indexToXMap entries of the characters of one item:
\* itemStartX + c * avgCharWidthInItem, c = 0 .. item.str.length - 1
CharXs(item) ==
    [c \in 1..Len(item.str) |->
        [n |-> item.x * LenOr1(item.str) + (c - 1) * item.width, d |-> LenOr1(item.str)]]

LyricSpaceBeforeLax(hasLast, lastItemEndX, item) ==
    /\ hasLast
    /\ (item.x - lastItemEndX) * 10 * LenOr1(item.str) >= item.width * 4

\* lastItemEndX !== -Infinity && (itemStartX - lastItemEndX > avgCharWidthInItem * 0.4)
LyricSpaceBefore(hasLast, lastItemEndX, item) ==
    /\ hasLast
    /\ (item.x - lastItemEndX) * 10 * LenOr1(item.str) > item.width * 4

\* PASS 2, the loop over pass1_lyricItems from index k on.
RECURSIVE LyricLoop(_, _, _, _, _, _)
LyricLoop(items, k, lyricString, indexToXMap, hasLast, lastItemEndX) ==
    IF k > Len(items) THEN [str |-> lyricString, map |-> indexToXMap]
    ELSE LET item  == items[k]
             space == LyricSpaceBefore(hasLast, lastItemEndX, item)
             str1  == IF space THEN Append(lyricString, " ") ELSE lyricString
             map1  == IF space
                      THEN Append(indexToXMap, [n |-> lastItemEndX + item.x, d |-> 2])
                      ELSE indexToXMap
         IN  LyricLoop(items, k + 1, str1 \o item.str, map1 \o CharXs(item),
                       TRUE, item.x + item.width)

ReconstructLyric(items) == LyricLoop(items, 1, <<>>, <<>>, FALSE, 0)

\* The while loop of one chord: the cursor it stops at, or Len(indexToXMap) when
\* it throws. Reading indexToXMap past its end gives undefined, and
\* undefined < x is false. The cursor counts from 0 as in the code.
RECURSIVE AdvanceCursor(_, _, _)
AdvanceCursor(indexToXMap, cursor, x) ==
    IF cursor < Len(indexToXMap) /\ QLess(indexToXMap[cursor + 1], x)
    THEN IF cursor + 1 = Len(indexToXMap)
         THEN Len(indexToXMap)
         ELSE AdvanceCursor(indexToXMap, cursor + 1, x)
    ELSE cursor

UnplaceableError(text) ==
    [name |-> "Error", message |-> <<"Couldn't find placement for ", text>>]

\* What the read of the undeclared closestCharIndex at line 269 throws.
ReferenceError ==
    [name |-> "ReferenceError", message |-> <<"closestCharIndex is not defined", <<>>>>]

NoError == [name |-> "none", message |-> <<"", <<>>>>]

\* The loop over pass1_chords from index k on. The body of the write loop runs
\* once per character of chord.text, and its first statement reads
\* closestCharIndex, which no scope declares.
RECURSIVE ChordLoop(_, _, _, _)
ChordLoop(chords, k, indexToXMap, lyricStringCursor) ==
    IF k > Len(chords)
    THEN [error |-> NoError, chord |-> 0, cursor |-> lyricStringCursor]
    ELSE LET chord  == chords[k]
             cursor == AdvanceCursor(indexToXMap, lyricStringCursor, chord.x)
         IN  IF cursor # lyricStringCursor /\ cursor = Len(indexToXMap)
             THEN [error |-> UnplaceableError(chord.str), chord |-> k, cursor |-> cursor]
             ELSE IF Len(chord.str) > 0
             THEN [error |-> ReferenceError, chord |-> k, cursor |-> cursor]
             ELSE ChordLoop(chords, k + 1, indexToXMap, cursor)

\* The pair branch: the error thrown, or the two lines appended to pageText.
ReconstructPair(chordLine, lyricLine) ==
    LET lyric  == ReconstructLyric(lyricLine.items)
        placed == ChordLoop(chordLine.items, 1, lyric.map, 0)
        chordLineChars == [c \in 1..Len(lyric.str) |-> " "]
    IN  [lyricString |-> lyric.str,
         indexToXMap |-> lyric.map,
         error       |-> placed.error,
         chord       |-> placed.chord,
         cursor      |-> placed.cursor,
         chordLineString |-> IF placed.error = NoError THEN TrimEnd(chordLineChars) ELSE <<>>,
         text        |-> IF placed.error = NoError
                         THEN TrimEnd(chordLineChars) \o <<NL>> \o lyric.str \o <<NL>>
                         ELSE <<>>]

-----------------------------------------------------------------------------
(* extractTextFromPdf: a line that is not part of a pair, and the result   *)

SingleSpaceBeforeLyricRule(hasLast, lastX, item) ==
    /\ hasLast
    /\ (item.x - lastX) * 10 * LenOr1(item.str) > item.width * 4

\* lastX !== -Infinity && (item.x - lastX > (item.width / (item.str.length || 1)))
SingleSpaceBefore(hasLast, lastX, item) ==
    /\ hasLast
    /\ (item.x - lastX) * LenOr1(item.str) > item.width

RECURSIVE SingleLoop(_, _, _, _, _)
SingleLoop(items, k, lineText, hasLast, lastX) ==
    IF k > Len(items) THEN lineText
    ELSE LET item == items[k]
             sp   == IF SingleSpaceBefore(hasLast, lastX, item) THEN <<" ">> ELSE <<>>
         IN  SingleLoop(items, k + 1, lineText \o sp \o item.str, TRUE, item.x + item.width)

RenderSingle(line) == SingleLoop(line.items, 1, <<>>, FALSE, 0) \o <<NL>>

\* .replace(/ \n/g, '\n'): every space that stands right before a line feed goes.
RECURSIVE StripSpaceNL(_)
StripSpaceNL(t) ==
    IF t = <<>> THEN <<>>
    ELSE IF Len(t) >= 2 /\ t[1] = " " /\ t[2] = NL
         THEN <<NL>> \o StripSpaceNL(SubSeq(t, 3, Len(t)))
         ELSE <<t[1]>> \o StripSpaceNL(Tail(t))

\* The length of the run of line feeds that starts t.
RECURSIVE RunOfNL(_)
RunOfNL(t) == IF t # <<>> /\ t[1] = NL THEN 1 + RunOfNL(Tail(t)) ELSE 0

\* .replace(/\n{3,}/g, '\n\n')
RECURSIVE CollapseNL(_)
CollapseNL(t) ==
    IF t = <<>> THEN <<>>
    ELSE LET run == RunOfNL(t)
         IN  IF run >= 3 THEN <<NL, NL>> \o CollapseNL(SubSeq(t, run + 1, Len(t)))
             ELSE <<t[1]>> \o CollapseNL(Tail(t))

\* The value extractTextFromPdf returns for fullText.
NormalizeText(t) == Trim(CollapseNL(StripSpaceNL(t)))

-----------------------------------------------------------------------------
(* The documents extractTextFromPdf is run on: up to MaxPages pages, each  *)
(* holding up to MaxFrags of the fragments of FragPool, in the pool's      *)
(* order: three chord symbols on the baseline y = 100, and the lyric text  *)
(* (x = 0 .. 50, five units per character) on a baseline above it and on   *)
(* baselines 29, 30 and 32 below it.                                       *)

Str_D       == <<"D">>
Str_GoTellIt == <<"G","o"," ","t","e","l","l"," ","i","t">>

FragPool ==
    << Item(Str_D,        200, 100,  5),
       Item(Str_Dm,        45, 100, 10),
       Item(Str_G,          0, 100,  5),
       Item(Str_GoTellIt,   0, 129, 50),
       Item(Str_GoTellIt,   0,  71, 50),
       Item(Str_GoTellIt,   0,  70, 50),
       Item(Str_GoTellIt,   0,  68, 50) >>

MaxFrags == 3
MaxPages == 2

\* The fragments of FragPool whose indices are in S, in the pool's order.
RECURSIVE PoolPage(_, _)
PoolPage(S, k) ==
    IF k > Len(FragPool) THEN <<>>
    ELSE (IF k \in S THEN <<FragPool[k]>> ELSE <<>>) \o PoolPage(S, k + 1)

Pages == { PoolPage(S, 1) :
             S \in { T \in SUBSET (1..Len(FragPool)) : Cardinality(T) <= MaxFrags } }

-----------------------------------------------------------------------------
(* The state machine: parseSongFromFile on a PDF file                      *)

Pending == [state |-> "pending", value |-> <<>>, reason |-> NoError]

\* The promise of extractTextFromPdf after `return text`.
Fulfilled(text) == [state |-> "fulfilled", value |-> text, reason |-> NoError]

RejectedPartial(error, accumulated) == Fulfilled(NormalizeText(accumulated))

\* The promise of extractTextFromPdf after a throw: the function has no
\* try/catch, so fullText, a local, is lost with the frame.
Rejected(error, accumulated) == [state |-> "rejected", value |-> <<>>, reason |-> error]

NoStep == [kind |-> "none", index |-> 0, pair |-> FALSE, error |-> NoError,
           chord |-> 0, cursor |-> 0, lyricString |-> <<>>, indexToXMap |-> <<>>,
           chordLineString |-> <<>>, emitted |-> <<>>]

ClsIdle == clsItems = <<>> /\ clsResult = "NONE"

PdfIdle ==
    /\ pc = "idle"
    /\ numPages = 0
    /\ p = 0
    /\ fullText = <<>>
    /\ lines = <<>>
    /\ i = 0
    /\ pageText = <<>>
    /\ processed = {}
    /\ lastStep = NoStep
    /\ outcome = Pending
    /\ parts = <<>>
    /\ thrown = NoError

\* No item (the accumulator before the loop of mergeAdjacentTextItems).
NoItem == Item(<<>>, 0, 0, 0)

\* from: the index in the sorted items of the accumulator's first fragment.
NoMergeStep ==
    [kind |-> "none", current |-> NoItem, next |-> NoItem, merge |-> FALSE, from |-> 0]

\* No single stage has run.
\* What pairLast holds before the lyric loop ran an iteration.
NoLyricStep == [k |-> 0, space |-> FALSE, at |-> 0]

PairIdle ==
    /\ pairChords = <<>>
    /\ pairLyricItems = <<>>
    /\ pairPc = "idle"
    /\ pairK = 0
    /\ pairString = <<>>
    /\ pairMap = <<>>
    /\ pairHasLast = FALSE
    /\ pairEndX = 0
    /\ pairCursor = 0
    /\ pairCols = <<>>
    /\ pairError = NoError
    /\ pairLast = NoLyricStep

\* null, for performanceContext
NoContext == [setId |-> 0, songIndex |-> -1]

\* What appLast holds before a handler was called.
NoCall == "none"

\* The App as it is mounted on empty storage.
AppIdle ==
    /\ songs = <<>>
    /\ sets = <<>>
    /\ activeSongId = 0
    /\ activeSetId = 0
    /\ isPerformanceMode = FALSE
    /\ performanceContext = NoContext
    /\ now = 0
    /\ appLast = NoCall

\* useChordBook on empty storage.
BookIdle ==
    /\ chordBook = <<>>
    /\ bookLog = <<>>

\* usePitchDetector as it is mounted.
MicIdle ==
    /\ micSupported = TRUE
    /\ micMounted = TRUE
    /\ isListening = FALSE
    /\ micError = FALSE
    /\ micPending = 0
    /\ micStreams = <<>>
    /\ audioContexts = <<>>
    /\ streamRef = 0
    /\ audioContextRef = 0
    /\ micStopped = FALSE

HooksIdle == AppIdle /\ BookIdle /\ MicIdle

StagesIdle ==
    /\ clsLog = <<>>
    /\ mrgItems = <<>>
    /\ mrgSorted = <<>>
    /\ mrgIndex = 0
    /\ mrgMerged = <<>>
    /\ mrgCurrent = NoItem
    /\ mrgStep = NoMergeStep
    /\ grpItems = <<>>
    /\ grpLines = <<>>
    /\ rndLine = <<>>
    /\ rndText = <<>>
    /\ doc = <<>>
    /\ PairIdle

Init == ClsIdle /\ PdfIdle /\ StagesIdle /\ HooksIdle

\* parseSongFromFile(file) with file.type = 'application/pdf', up to the page
\* loop of extractTextFromPdf: the document is loaded, fullText = ''.
OpenPdf ==
    /\ pc = "idle"
    /\ \E n \in 1..MaxPages : numPages' = n
    /\ p' = 1
    /\ pc' = "pageLoop"
    /\ UNCHANGED <<fullText, lines, i, pageText, processed, lastStep, outcome,
                   parts, thrown, clsVars, stageVars, hookVars>>

\* One turn of the page loop up to the line loop: the page's items arrive,
\* are merged, grouped and classified. A page without items is skipped.
GetPage ==
    /\ pc = "pageLoop"
    /\ p <= numPages
    /\ \E rawItems \in Pages :
         LET allItems == mergeAdjacentTextItems(rawItems)
         IN  IF Len(rawItems) = 0 \/ Len(allItems) = 0
             THEN /\ p' = p + 1
                  /\ UNCHANGED <<pc, lines, i, pageText, processed, lastStep>>
             ELSE /\ lines' = ClassifiedLines(allItems)
                  /\ lastStep' = NoStep
                  /\ i' = 1
                  /\ pageText' = <<>>
                  /\ processed' = {}
                  /\ pc' = "lineLoop"
                  /\ UNCHANGED p
    /\ UNCHANGED <<numPages, fullText, outcome, parts, thrown, clsVars, stageVars, hookVars>>

\* One turn of the line loop (i counts from 1 here, from 0 in the code).
LineStep ==
    /\ pc = "lineLoop"
    /\ i <= Len(lines)
    /\ IF i \in processed
       THEN /\ i' = i + 1
            /\ lastStep' = [NoStep EXCEPT !.kind = "skip", !.index = i]
            /\ UNCHANGED <<pc, pageText, processed, outcome>>
       ELSE IF isPair(lines, i)
       THEN LET r == ReconstructPair(lines[i], lines[i + 1])
                step == [kind |-> "pair", index |-> i, pair |-> TRUE, error |-> r.error,
                         chord |-> r.chord, cursor |-> r.cursor,
                         lyricString |-> r.lyricString, indexToXMap |-> r.indexToXMap,
                         chordLineString |-> r.chordLineString, emitted |-> r.text]
            IN  /\ lastStep' = step
                /\ IF r.error # NoError
                   THEN /\ outcome' = Rejected(r.error, fullText \o pageText)
                        /\ pc' = "settled"
                        /\ UNCHANGED <<i, pageText, processed>>
                   ELSE /\ pageText' = pageText \o r.text
                        /\ processed' = processed \cup {i, i + 1}
                        /\ i' = i + 1
                        /\ UNCHANGED <<pc, outcome>>
       ELSE LET text == RenderSingle(lines[i])
            IN  /\ pageText' = pageText \o text
                /\ processed' = processed \cup {i}
                /\ i' = i + 1
                /\ lastStep' = [NoStep EXCEPT !.kind = "single", !.index = i,
                                              !.emitted = text]
                /\ UNCHANGED <<pc, outcome>>
    /\ UNCHANGED <<numPages, p, fullText, lines, parts, thrown, clsVars, stageVars, hookVars>>

\* The end of a page: fullText += pageText + '\n'. The page's classifiedLines,
\* pageText and processedIndices are locals of the loop body and end with it.
EndPage ==
    /\ pc = "lineLoop"
    /\ i > Len(lines)
    /\ fullText' = fullText \o pageText \o <<NL>>
    /\ p' = p + 1
    /\ pc' = "pageLoop"
    /\ lines' = <<>>
    /\ i' = 0
    /\ pageText' = <<>>
    /\ processed' = {}
    /\ lastStep' = NoStep
    /\ UNCHANGED <<numPages, outcome, parts, thrown, clsVars, stageVars, hookVars>>

\* The return of extractTextFromPdf.
ReturnText ==
    /\ pc = "pageLoop"
    /\ p > numPages
    /\ outcome' = Fulfilled(NormalizeText(fullText))
    /\ pc' = "settled"
    /\ UNCHANGED <<numPages, p, fullText, lines, i, pageText, processed, lastStep,
                   parts, thrown, clsVars, stageVars, hookVars>>

EmptyPdfError ==
    [name |-> "Error",
     message |-> <<"Could not extract any text from the PDF. It might be an image-only PDF.", <<>>>>]

\* new Error(`Could not read the file. Reason: ${e.message}`)
ReadError(e) == [name |-> "Error", message |-> <<"Could not read the file. Reason: ", e.message>>]

\* parseSongFromFile after `await extractTextFromPdf(file)` gave a text: an
\* empty text is thrown and caught by the same try, any other goes into parts.
UseText ==
    /\ pc = "settled"
    /\ outcome.state = "fulfilled"
    /\ IF Trim(outcome.value) = <<>>
       THEN /\ thrown' = ReadError(EmptyPdfError)
            /\ pc' = "failed"
            /\ UNCHANGED parts
       ELSE /\ parts' = <<[text |-> outcome.value]>>
            /\ pc' = "generate"
            /\ UNCHANGED thrown
    /\ UNCHANGED <<numPages, p, fullText, lines, i, pageText, processed, lastStep,
                   outcome, clsVars, stageVars, hookVars>>

\* parseSongFromFile's catch of what extractTextFromPdf threw.
CatchError ==
    /\ pc = "settled"
    /\ outcome.state = "rejected"
    /\ thrown' = ReadError(outcome.reason)
    /\ pc' = "failed"
    /\ UNCHANGED <<numPages, p, fullText, lines, i, pageText, processed, lastStep,
                   outcome, parts, clsVars, stageVars, hookVars>>

Next == OpenPdf \/ GetPage \/ LineStep \/ EndPage \/ ReturnText \/ UseText \/ CatchError

Spec == Init /\ [][Next]_vars

-----------------------------------------------------------------------------
(* The state machine: calls of classifyLine                                *)

InitClassify ==
    /\ clsItems \in ClsLines
    /\ clsResult = "NONE"
    /\ PdfIdle
    /\ StagesIdle
    /\ HooksIdle

ClassifyCall ==
    /\ clsResult = "NONE"
    /\ clsResult' = classifyLine(clsItems)
    /\ UNCHANGED <<clsItems, pdfVars, stageVars, hookVars>>

NextClassify == ClassifyCall

SpecClassify == InitClassify /\ [][NextClassify]_vars

-----------------------------------------------------------------------------
(* Properties of extractTextFromPdf and parseSongFromFile (Spec)           *)

\* The last turn of the line loop took the pair branch: its chord line and
\* what the reconstruction computed.
PairStep == lastStep.kind = "pair"
StepChords == lines[lastStep.index].items

\* Some character of the lyric line is mapped to an x at or after x.
PlaceableIn(indexToXMap, x) ==
    \E k \in 1..Len(indexToXMap) : QAtLeast(indexToXMap[k], x)

\* The first index (from 0) whose mapped x is at or after x.
FirstIndexAtLeast(indexToXMap, x) ==
    (CHOOSE k \in 1..Len(indexToXMap) :
        /\ QAtLeast(indexToXMap[k], x)
        /\ \A j \in 1..(k - 1) : QLess(indexToXMap[j], x)) - 1

\* C1: for every couplet in which each chord token's x is at or before the
\* mapped x of some lyric character, the extraction does not fail on it and
\* the chord line carries each chord token's first character at the first
\* lyric index whose mapped x is at or after the chord's x ("G" at x = 0
\* over "Go tell it" at x = 0 gives "G" in column 0).
C1_AlignmentPlacement ==
    (PairStep /\ \A k \in 1..Len(StepChords) :
                     PlaceableIn(lastStep.indexToXMap, StepChords[k].x))
    => /\ lastStep.error = NoError
       /\ \A k \in 1..Len(StepChords) :
            Len(StepChords[k].str) > 0 =>
              LET col == FirstIndexAtLeast(lastStep.indexToXMap, StepChords[k].x)
              IN  /\ col + 1 <= Len(lastStep.chordLineString)
                  /\ lastStep.chordLineString[col + 1] = StepChords[k].str[1]

\* C2: whenever a chord token of a couplet lies to the right of every mapped x
\* of the lyric line, the extraction fails with the unplaceable-chord error
\* naming such a chord.
C2_UnplaceableChord ==
    (PairStep /\ \E k \in 1..Len(StepChords) :
                     ~PlaceableIn(lastStep.indexToXMap, StepChords[k].x))
    => \E k \in 1..Len(StepChords) :
          /\ ~PlaceableIn(lastStep.indexToXMap, StepChords[k].x)
          /\ lastStep.error = UnplaceableError(StepChords[k].str)
          /\ outcome.state = "rejected"
          /\ outcome.reason = lastStep.error

\* C3: extractTextFromPdf returns a text or fails with the unplaceable-chord
\* error, and in no other way.
C3_OnlyUnplaceableFails ==
    outcome.state = "rejected"
    => \E k \in 1..Len(StepChords) : outcome.reason = UnplaceableError(StepChords[k].str)

\* C4: when a page fails, the extraction gives no text: the promise is
\* rejected, it carries none of the text accumulated for the earlier pages,
\* and parseSongFromFile hands nothing to generateContent.
C4_NoPartialOutput ==
    lastStep.error # NoError
    => /\ outcome.state = "rejected"
       /\ outcome.value = <<>>
       /\ parts = <<>>
       /\ pc \in {"settled", "failed"}

\* C4, the case: page 2 failed after page 1 had put text into fullText, and
\* parseSongFromFile ended by rethrowing.
C4_Witness ==
    /\ lastStep.error # NoError
    /\ p = 2
    /\ fullText # <<>>
    /\ pc = "failed"
    /\ thrown = ReadError(lastStep.error)

\* C6: a chord positioned at cursor index k with k + len(chord text) beyond
\* the lyric string makes the extraction fail with the unplaceable-chord
\* error (and nothing is written at or past the end of the buffer).
C6_ChordWriteBounds ==
    (/\ PairStep
     /\ lastStep.chord >= 1
     /\ lastStep.cursor < Len(lastStep.indexToXMap)
     /\ lastStep.cursor + Len(StepChords[lastStep.chord].str) > Len(lastStep.lyricString))
    => /\ lastStep.error = UnplaceableError(StepChords[lastStep.chord].str)
       /\ outcome.reason = lastStep.error

\* The last turn of the line loop decided whether line index starts a pair.
Decided == lastStep.kind \in {"single", "pair"}

\* Lines a and b of the current page exist, are classified Chord and Lyric and
\* lie at the given y.
ChordLyricAt(a, ya, b, yb) ==
    /\ a \in 1..Len(lines) /\ b \in 1..Len(lines)
    /\ lines[a].type = "CHORD" /\ lines[a].y = ya
    /\ lines[b].type = "LYRIC" /\ lines[b].y = yb

\* C7 as stated: the rule, with a Chord line at y = 100 and a Lyric line at
\* y = 129 paired (difference 29), and not paired at differences 30 and 32.
C7_PairingAsStated ==
    Decided =>
      LET k == lastStep.index
      IN  /\ lastStep.pair <=>
               /\ lines[k].type = "CHORD"
               /\ k + 1 <= Len(lines)
               /\ lines[k + 1].type = "LYRIC"
               /\ lines[k].y - lines[k + 1].y < 30
               /\ lines[k + 1].y - lines[k].y < 30
          /\ (\E b \in 1..Len(lines) : ChordLyricAt(k, 100, b, 129)) /\ Len(lines) = 2
               => lastStep.pair

\* C7 as amended: line k and line k + 1 of the page's sequence (descending y)
\* are paired iff line k is Chord, line k + 1 is Lyric and their y differ by
\* less than 30; a Chord line at y = 100 and the Lyric line next after it at
\* y = 71 (difference 29) are paired, with the Lyric line at y = 70 or y = 68
\* (differences 30 and 32) they are not, and a Chord line at y = 100 is not
\* paired with a Lyric line at y = 129, which precedes it in the sequence.
C7_Pairing ==
    Decided =>
      LET k == lastStep.index
      IN  /\ lastStep.pair <=>
               /\ lines[k].type = "CHORD"
               /\ k + 1 <= Len(lines)
               /\ lines[k + 1].type = "LYRIC"
               /\ lines[k].y - lines[k + 1].y < 30
               /\ lines[k + 1].y - lines[k].y < 30
          /\ ChordLyricAt(k, 100, k + 1, 71) => lastStep.pair
          /\ ChordLyricAt(k, 100, k + 1, 70) => ~lastStep.pair
          /\ ChordLyricAt(k, 100, k + 1, 68) => ~lastStep.pair
          /\ (ChordLyricAt(k, 100, 1, 129) /\ Len(lines) = 2) => ~lastStep.pair

\* C7, the case: the Chord line at y = 100 and the Lyric line at y = 71 went
\* into the pair branch.
C7_Witness ==
    /\ PairStep
    /\ ChordLyricAt(lastStep.index, 100, lastStep.index + 1, 71)

\* The text of the lines k .. n - 1 emitted one after the other in line order,
\* a Chord line and the Lyric line it pairs with as one couplet, every other
\* line by itself.
RECURSIVE EmittedInOrder(_, _, _)
EmittedInOrder(all, k, n) ==
    IF k >= n THEN <<>>
    ELSE IF isPair(all, k)
    THEN ReconstructPair(all[k], all[k + 1]).text \o EmittedInOrder(all, k + 2, n)
    ELSE RenderSingle(all[k]) \o EmittedInOrder(all, k + 1, n)

\* C19: while the lines of a page are scanned, the two lines of a couplet
\* whose chords can all be placed are emitted (and marked consumed) together,
\* every line before the cursor has been consumed, none but the Lyric line of
\* the couplet just emitted ahead of it, and pageText is the emissions of the
\* lines passed, each once, in line order.
C19_GreedyPairing ==
    (pc \in {"lineLoop", "settled"} /\ lines # <<>>) =>
      /\ (PairStep /\ \A k \in 1..Len(StepChords) :
                          PlaceableIn(lastStep.indexToXMap, StepChords[k].x))
           => /\ lastStep.error = NoError
              /\ {lastStep.index, lastStep.index + 1} \subseteq processed
      /\ \A k \in 1..Len(lines) : (k < i => k \in processed) /\ (k \in processed => k <= i)
      /\ pageText = EmittedInOrder(lines, 1, i)

-----------------------------------------------------------------------------
(* Properties of classifyLine (SpecClassify)                               *)

Classified == clsResult # "NONE"
ClsTerms == Terms(clsItems)
ClsChords == Cardinality({ k \in 1..Len(ClsTerms) : isChordToken(ClsTerms[k]) })
ClsHasLyrics ==
    \E t \in { ClsTerms[k] : k \in 1..Len(ClsTerms) } :
        \E c \in { StripChordWords(t)[k] : k \in 1..Len(StripChordWords(t)) } :
            c \in LyricLetters

\* C8: a line whose terms concatenate to a bracketed section marker
\* ("[Chorus]", "[Intro]") is classified Unknown.
C8_SectionMarkerUnknown ==
    (Classified /\ ClsTerms # <<>> /\ IsBracketed(Join(ClsTerms)))
    => clsResult = "UNKNOWN"

StrictThresholds(terms, chords, hasLyrics, result) ==
    /\ terms = <<>> => result = "UNKNOWN"
    /\ (terms # <<>> /\ chords * 10 > 7 * Len(terms)) => result = "CHORD"
    /\ (terms # <<>> /\ chords * 10 = 7 * Len(terms) /\ hasLyrics) => result # "CHORD"
    /\ (terms # <<>> /\ ~hasLyrics) => (result = "CHORD" <=> chords * 10 > 2 * Len(terms))
    /\ (/\ terms # <<>>
        /\ chords * 10 <= 2 * Len(terms)
        /\ ~hasLyrics
        /\ ~IsBracketed(Join(terms)))
          => result = "LYRIC"

\* C10: no non-empty term gives Unknown; chordRatio > 0.7 gives Chord whatever
\* the other terms are, and exactly 0.7 does not by that rule; without
\* lyric letters the line is Chord iff chordRatio > 0.2; a line that meets no
\* rule and is not a bracketed marker is Lyric.
C10_StrictThresholds ==
    Classified => StrictThresholds(ClsTerms, ClsChords, ClsHasLyrics, clsResult)

\* C10, the case: seven chord terms of ten, the other three with lyric
\* letters: chordRatio is exactly 0.7 and the line is not Chord.
C10_Witness ==
    /\ Classified
    /\ Len(ClsTerms) = 10
    /\ ClsChords = 7
    /\ ClsHasLyrics
    /\ clsResult = "LYRIC"

\* C10, the other boundary: one chord term of five and no lyric letter:
\* chordRatio is exactly 0.2 and the line is not Chord.
C10_WitnessLow ==
    /\ Classified
    /\ Len(ClsTerms) = 5
    /\ ClsChords = 1
    /\ ~ClsHasLyrics
    /\ clsResult = "LYRIC"

-----------------------------------------------------------------------------
(* The state machine: classifyLine called again and again, on lines in any *)
(* order (SpecCalls). The lines are item lists that differ in position,    *)
(* width, white space and blank items and that share token lists.          *)

Str_DmPadded == <<" ","D","m"," ">>

CallLines ==
    { << >>,
      << Item(Str_blank, 0, 0, 5) >>,
      << Item(Str_Dm, 0, 0, 10) >>,
      << Item(Str_DmPadded, 30, 50, 20), Item(Str_blank, 60, 50, 5) >>,
      << Item(Str_Dm, 0, 0, 10), Item(Str_is, 20, 0, 10), Item(Str_great, 40, 0, 25) >>,
      << Item(Str_Dm, 5, 71, 12), Item(Str_blank, 18, 71, 3),
         Item(Str_is, 22, 71, 8), Item(Str_great, 33, 71, 30) >>,
      << Item(Str_BrA, 0, 0, 15) >> }

MaxCalls == 3

InitCalls ==
    /\ ClsIdle
    /\ PdfIdle
    /\ StagesIdle
    /\ HooksIdle

\* A cache of results keyed by lineItems.length, which classifyLine has not.
ClassifyAgainCached ==
    /\ Len(clsLog) < MaxCalls
    /\ \E lineItems \in CallLines :
         LET hits == { k \in 1..Len(clsLog) : Len(clsLog[k].items) = Len(lineItems) }
             type == IF hits = {} THEN classifyLine(lineItems)
                     ELSE clsLog[CHOOSE k \in hits : TRUE].type
         IN  clsLog' = Append(clsLog, [items |-> lineItems, type |-> type])
    /\ UNCHANGED <<clsVars, pdfVars, mergeVars, groupVars, renderVars, extractVars, pairVars, hookVars>>

\* One more call of classifyLine. The function reads its argument and its
\* locals only (the regular expressions are literals evaluated in the call,
\* and those used with test and match have no g or y flag, so no lastIndex
\* is carried over); the log of the earlier calls is not an input of it.
ClassifyAgain ==
    /\ Len(clsLog) < MaxCalls
    /\ \E lineItems \in CallLines :
         clsLog' = Append(clsLog, [items |-> lineItems, type |-> classifyLine(lineItems)])
    /\ UNCHANGED <<clsVars, pdfVars, mergeVars, groupVars, renderVars, extractVars, pairVars, hookVars>>

NextCalls == ClassifyAgain

SpecCalls == InitCalls /\ [][NextCalls]_vars

-----------------------------------------------------------------------------
(* The state machine: mergeAdjacentTextItems, one turn of its loop at a    *)
(* time (SpecMerge). The pages hold up to MaxMergeItems fragments of       *)
(* MergePool, in the pool's order: "F" at x = 0 .. 10 on the baseline      *)
(* y = 100, a "7" on the same baseline at the gaps -3, -2, 4, 5 and 11     *)
(* from it, and an "a" that starts where "F" ends, on the baseline y = 71. *)

Str_F == <<"F">>
Str_7 == <<"7">>
Str_a == <<"a">>

MergePool ==
    << Item(Str_7, 21, 100, 10),
       Item(Str_a, 10,  71, 10),
       Item(Str_7, 15, 100, 10),
       Item(Str_7,  8, 100, 10),
       Item(Str_F,  0, 100, 10),
       Item(Str_7, 14, 100, 10),
       Item(Str_7,  7, 100, 10) >>

MaxMergeItems == 3

\* The fragments of MergePool whose indices are in S, in the pool's order.
RECURSIVE MergePoolPage(_, _)
MergePoolPage(S, k) ==
    IF k > Len(MergePool) THEN <<>>
    ELSE (IF k \in S THEN <<MergePool[k]>> ELSE <<>>) \o MergePoolPage(S, k + 1)

MergePages ==
    { MergePoolPage(S, 1) :
        S \in { T \in SUBSET (1..Len(MergePool)) : Cardinality(T) <= MaxMergeItems } }

InitMerge ==
    /\ ClsIdle
    /\ PdfIdle
    /\ clsLog = <<>>
    /\ mrgItems \in MergePages
    /\ mrgSorted = <<>>
    /\ mrgIndex = 0
    /\ mrgMerged = <<>>
    /\ mrgCurrent = NoItem
    /\ mrgStep = NoMergeStep
    /\ grpItems = <<>>
    /\ grpLines = <<>>
    /\ rndLine = <<>>
    /\ rndText = <<>>
    /\ doc = <<>>
    /\ PairIdle
    /\ HooksIdle

MergeLooping == mrgStep.kind \in {"begin", "merge", "push"}

\* mergeAdjacentTextItems(items) up to its loop: fewer than two items are
\* returned as they are, otherwise the items are sorted and the first is copied
\* into the accumulator.
MergeBegin ==
    /\ mrgStep.kind = "none"
    /\ IF Len(mrgItems) < 2
       THEN /\ mrgMerged' = mrgItems
            /\ mrgStep' = [NoMergeStep EXCEPT !.kind = "return"]
            /\ UNCHANGED <<mrgSorted, mrgIndex, mrgCurrent>>
       ELSE /\ mrgSorted' = SortByX(mrgItems)
            /\ mrgCurrent' = SortByX(mrgItems)[1]
            /\ mrgIndex' = 2
            /\ mrgStep' = [NoMergeStep EXCEPT !.kind = "begin", !.from = 1]
            /\ UNCHANGED mrgMerged
    /\ UNCHANGED <<mrgItems, clsVars, pdfVars, callVars, groupVars, renderVars, extractVars, pairVars, hookVars>>

\* One turn of the loop (mrgIndex counts from 1 here, i from 0 in the code).
MergeStep ==
    /\ MergeLooping
    /\ mrgIndex <= Len(mrgSorted)
    /\ LET nextItem == mrgSorted[mrgIndex]
       IN  IF ShouldMerge(mrgCurrent, nextItem)
           THEN /\ mrgCurrent' = [mrgCurrent EXCEPT
                                    !.str = mrgCurrent.str \o nextItem.str,
                                    !.width = (nextItem.x + nextItem.width) - mrgCurrent.x]
                /\ mrgStep' = [kind |-> "merge", current |-> mrgCurrent, next |-> nextItem,
                               merge |-> TRUE, from |-> mrgStep.from]
                /\ UNCHANGED mrgMerged
           ELSE /\ mrgMerged' = Append(mrgMerged, mrgCurrent)
                /\ mrgCurrent' = nextItem
                /\ mrgStep' = [kind |-> "push", current |-> mrgCurrent, next |-> nextItem,
                               merge |-> FALSE, from |-> mrgIndex]
    /\ mrgIndex' = mrgIndex + 1
    /\ UNCHANGED <<mrgItems, mrgSorted, clsVars, pdfVars, callVars, groupVars,
                   renderVars, extractVars, pairVars, hookVars>>

\* After the loop: merged.push(currentItem); return merged.
MergeReturn ==
    /\ MergeLooping
    /\ mrgIndex > Len(mrgSorted)
    /\ mrgMerged' = Append(mrgMerged, mrgCurrent)
    /\ mrgStep' = [mrgStep EXCEPT !.kind = "return"]
    /\ UNCHANGED <<mrgItems, mrgSorted, mrgIndex, mrgCurrent, clsVars, pdfVars, callVars,
                   groupVars, renderVars, extractVars, pairVars, hookVars>>

NextMerge == MergeBegin \/ MergeStep \/ MergeReturn

SpecMerge == InitMerge /\ [][NextMerge]_vars

-----------------------------------------------------------------------------
(* Properties of mergeAdjacentTextItems (SpecMerge)                        *)

\* The last turn of the loop decided whether the next fragment joins the
\* accumulator.
MergeDecided == mrgStep.kind \in {"merge", "push"}

\* nextX - (currentX + currentWidth) of that turn
StepGap == mrgStep.next.x - (mrgStep.current.x + mrgStep.current.width)

\* max(1, len(currentText)) of that turn
StepLen == IF Len(mrgStep.current.str) > 1 THEN Len(mrgStep.current.str) ELSE 1

\* gap < 0.5 * currentWidth / max(1, len(currentText))
BelowThreshold(gap, width, len) == 2 * gap * len < width

\* gap > currentWidth / max(1, len(currentText))
BeyondCharWidth(gap, width, len) == gap * len > width

\* C12 as stated: a gap that is negative, or positive and below the
\* threshold, always merges; a gap of more than one average character width
\* of the accumulator never merges.
C12_MergeThresholdAsStated ==
    MergeDecided =>
      /\ BelowThreshold(StepGap, mrgStep.current.width, StepLen) => mrgStep.merge
      /\ BeyondCharWidth(StepGap, mrgStep.current.width, StepLen) => ~mrgStep.merge

\* C12 as amended: the next fragment merges into the accumulator iff the gap
\* is at least -2 and below the threshold; so a gap below -2 (an overlap of
\* more than 2) never merges, and a gap of more than one average character
\* width of the accumulator never merges.
C12_MergeThreshold ==
    MergeDecided =>
      /\ mrgStep.merge <=>
           (StepGap >= -2 /\ BelowThreshold(StepGap, mrgStep.current.width, StepLen))
      /\ StepGap < -2 => ~mrgStep.merge
      /\ BeyondCharWidth(StepGap, mrgStep.current.width, StepLen) => ~mrgStep.merge

\* C12, the case: the accumulator "F7" (x = 0, width 18, threshold 4.5) took
\* in the "7" at gap 3, which "F" alone (threshold 5, gap 11) does not.
C12_Witness ==
    /\ mrgStep.kind = "merge"
    /\ mrgStep.current.str = <<"F","7">>
    /\ mrgStep.current.width = 18
    /\ StepGap = 3
    /\ mrgCurrent.str = <<"F","7","7">>
    /\ mrgCurrent.width = 31

\* C12, the lower end: gap -2 merged.
C12_WitnessOverlap == mrgStep.kind = "merge" /\ StepGap = -2

\* C12, the upper end: a gap equal to the threshold (5 of 5) did not merge.
C12_WitnessAtThreshold ==
    /\ mrgStep.kind = "push"
    /\ StepGap = 5
    /\ mrgStep.current.width = 10
    /\ StepLen = 1

\* C13: a fragment that joins the accumulator lies on the baseline of every
\* fragment already in it: their y differ by less than Y_TOLERANCE.
C13_SameBaselineOnly ==
    (MergeDecided /\ mrgStep.merge)
    => \A k \in mrgStep.from..(mrgIndex - 2) :
          Abs(mrgSorted[k].y - mrgStep.next.y) < Y_TOLERANCE

-----------------------------------------------------------------------------
(* extractTextFromPdf as a function of the pages of the file               *)

\* The line loop of a page from index k on: the error thrown, if any, and
\* pageText.
RECURSIVE LineLoop(_, _, _, _)
LineLoop(all, k, text, done) ==
    IF k > Len(all) THEN [error |-> NoError, pageText |-> text]
    ELSE IF k \in done THEN LineLoop(all, k + 1, text, done)
    ELSE IF isPair(all, k)
    THEN LET r == ReconstructPair(all[k], all[k + 1])
         IN  IF r.error # NoError
             THEN [error |-> r.error, pageText |-> text]
             ELSE LineLoop(all, k + 1, text \o r.text, done \cup {k, k + 1})
    ELSE LineLoop(all, k + 1, text \o RenderSingle(all[k]), done \cup {k})

RECURSIVE PageLoopStop(_, _, _)
PageLoopStop(pages, n, text) ==
    IF n > Len(pages)
    THEN [outcome |-> Fulfilled(NormalizeText(text)), fullText |-> text, p |-> n]
    ELSE IF Len(pages[n]) = 0 \/ Len(mergeAdjacentTextItems(pages[n])) = 0
    THEN [outcome |-> Fulfilled(NormalizeText(text)), fullText |-> text, p |-> n]
    ELSE LET r == LineLoop(ClassifiedLines(mergeAdjacentTextItems(pages[n])), 1, <<>>, {})
         IN  IF r.error # NoError
             THEN [outcome |-> Rejected(r.error, text \o r.pageText),
                   fullText |-> text, p |-> n]
             ELSE PageLoopStop(pages, n + 1, text \o r.pageText \o <<NL>>)

\* The page loop from page n on: how the promise settles, and fullText and p
\* at that point.
RECURSIVE PageLoop(_, _, _)
PageLoop(pages, n, text) ==
    IF n > Len(pages)
    THEN [outcome |-> Fulfilled(NormalizeText(text)), fullText |-> text, p |-> n]
    ELSE IF Len(pages[n]) = 0 \/ Len(mergeAdjacentTextItems(pages[n])) = 0
    THEN PageLoop(pages, n + 1, text)
    ELSE LET r == LineLoop(ClassifiedLines(mergeAdjacentTextItems(pages[n])), 1, <<>>, {})
         IN  IF r.error # NoError
             THEN [outcome |-> Rejected(r.error, text \o r.pageText),
                   fullText |-> text, p |-> n]
             ELSE PageLoop(pages, n + 1, text \o r.pageText \o <<NL>>)

extractTextFromPdf(pages) == PageLoop(pages, 1, <<>>)

-----------------------------------------------------------------------------
(* The state machine: extractTextFromPdf run on a file (SpecExtract). The  *)
(* file has up to MaxDocPages pages, each one of DocPages: a page without  *)
(* items, pages of one line, of two lines, with text that ends in spaces,  *)
(* with a blank item only, and a page with a chord line over a lyric line. *)

Str_isPadded == <<"i","s"," "," ">>

DocPages ==
    { << >>,
      << Item(Str_G, 0, 100, 5) >>,
      << Item(Str_isPadded, 0, 100, 20) >>,
      << Item(Str_blank, 0, 100, 5) >>,
      << Item(Str_great, 0, 100, 25), Item(Str_is, 0, 71, 10) >>,
      << Item(Str_G, 0, 100, 5), Item(Str_GoTellIt, 0, 71, 50) >> }

MaxDocPages == 3

InitExtract ==
    /\ ClsIdle
    /\ PdfIdle
    /\ clsLog = <<>>
    /\ mrgItems = <<>>
    /\ mrgSorted = <<>>
    /\ mrgIndex = 0
    /\ mrgMerged = <<>>
    /\ mrgCurrent = NoItem
    /\ mrgStep = NoMergeStep
    /\ grpItems = <<>>
    /\ grpLines = <<>>
    /\ rndLine = <<>>
    /\ rndText = <<>>
    /\ doc \in SeqsUpTo(DocPages, MaxDocPages)
    /\ PairIdle
    /\ HooksIdle

\* extractTextFromPdf(file), from the call to the settling of its promise.
ExtractCall ==
    /\ pc = "idle"
    /\ LET r == extractTextFromPdf(doc)
       IN  /\ numPages' = Len(doc)
           /\ p' = r.p
           /\ fullText' = r.fullText
           /\ outcome' = r.outcome
    /\ pc' = "settled"
    /\ UNCHANGED <<lines, i, pageText, processed, lastStep, parts, thrown,
                   clsVars, stageVars, hookVars>>

NextExtract == ExtractCall

SpecExtract == InitExtract /\ [][NextExtract]_vars

-----------------------------------------------------------------------------
(* Properties of extractTextFromPdf on a file (SpecExtract)                *)

\* extractTextFromPdf returned a text.
Returned == pc = "settled" /\ outcome.state = "fulfilled"

\* C14: the text extractTextFromPdf returns, which is normalize(fullText), is
\* left as it is by one more normalization pass.
C14_NormalizeIdempotent ==
    Returned => NormalizeText(outcome.value) = outcome.value

\* A space stands right before a line feed in t.
SpaceBeforeNL(t) == \E k \in 1..(Len(t) - 1) : t[k] = " " /\ t[k + 1] = NL

\* Three line feeds in a row stand in t.
TripleNL(t) == \E k \in 1..(Len(t) - 2) : t[k] = NL /\ t[k + 1] = NL /\ t[k + 2] = NL

\* C15: in the text extractTextFromPdf returns no line feed is preceded by a
\* space and there is no run of three or more line feeds.
C15_NormalizedPostcondition ==
    Returned => (~SpaceBeforeNL(outcome.value) /\ ~TripleNL(outcome.value))

\* doc without its pages that have no items.
WithoutEmptyPages == SelectSeq(doc, LAMBDA page : Len(page) > 0)

\* C18: a page with no items stops nothing and adds nothing: the promise
\* settles as it does for the file without its empty pages, with the same
\* text, and fullText is the same character for character.
C18_EmptyPagesSkipped ==
    pc = "settled" =>
      /\ outcome = extractTextFromPdf(WithoutEmptyPages).outcome
      /\ fullText = extractTextFromPdf(WithoutEmptyPages).fullText

\* C18, the case: an empty page between two pages with text, and the text of
\* both pages returned.
C18_Witness ==
    /\ Returned
    /\ Len(doc) = 3
    /\ doc[1] = << Item(Str_G, 0, 100, 5) >>
    /\ doc[2] = << >>
    /\ doc[3] = << Item(Str_great, 0, 100, 25), Item(Str_is, 0, 71, 10) >>
    /\ outcome.value = <<"G", NL, NL, "g","r","e","a","t", NL, "i","s">>

-----------------------------------------------------------------------------
(* The state machine: the rendering of a line that is not part of a pair   *)
(* (SpecRender). A line holds up to MaxLineTokens tokens, "G" (width 5,    *)
(* 5 per character) and "Go" (width 20, 10 per character), each at a gap   *)
(* of 3, 7 or 12 from the end of the token before it; only lines that the  *)
(* merger leaves as they are, are lines.                                   *)

Str_Go == <<"G","o">>

TokenShapes == { [str |-> Str_G, width |-> 5], [str |-> Str_Go, width |-> 20] }
TokenGaps == {3, 7, 12}

MaxLineTokens == 3

\* The tokens of a line on the baseline y = 100, the first at x = 0, from
\* their shapes and gaps.
RECURSIVE BuildLine(_, _, _)
BuildLine(shapes, k, x) ==
    IF k > Len(shapes) THEN <<>>
    ELSE LET start == IF k = 1 THEN 0 ELSE x + shapes[k].gap
         IN  <<Item(shapes[k].shape.str, start, 100, shapes[k].shape.width)>>
             \o BuildLine(shapes, k + 1, start + shapes[k].shape.width)

RenderLines ==
    { l \in { BuildLine(sh, 1, 0) :
                sh \in UNION { [1..n -> [shape : TokenShapes, gap : TokenGaps]] :
                                 n \in 1..MaxLineTokens } } :
        mergeAdjacentTextItems(l) = l }

InitRender ==
    /\ ClsIdle
    /\ PdfIdle
    /\ clsLog = <<>>
    /\ mrgItems = <<>>
    /\ mrgSorted = <<>>
    /\ mrgIndex = 0
    /\ mrgMerged = <<>>
    /\ mrgCurrent = NoItem
    /\ mrgStep = NoMergeStep
    /\ grpItems = <<>>
    /\ grpLines = <<>>
    /\ rndLine \in RenderLines
    /\ rndText = <<>>
    /\ doc = <<>>
    /\ PairIdle
    /\ HooksIdle

\* The else branch of the line loop for currentLine.items = rndLine: what it
\* appends to pageText.
RenderCall ==
    /\ rndText = <<>>
    /\ rndText' = RenderSingle([y |-> 100, items |-> rndLine, type |-> classifyLine(rndLine)])
    /\ UNCHANGED <<rndLine, clsVars, pdfVars, callVars, mergeVars, groupVars, extractVars, pairVars, hookVars>>

NextRender == RenderCall

SpecRender == InitRender /\ [][NextRender]_vars

\* The gap between two adjacent tokens exceeds one average character width
\* (width / max(1, len(text))) of the token ref.
GapExceeds(left, right, ref) ==
    (right.x - (left.x + left.width)) * (IF Len(ref.str) > 1 THEN Len(ref.str) ELSE 1)
        > ref.width

\* The texts of the tokens from index k on, a space before a token iff the
\* gap to the token before it exceeds one average character width of the left
\* (byLeft) or of the right token.
RECURSIVE SpacedTexts(_, _, _)
SpacedTexts(tokens, k, byLeft) ==
    IF k > Len(tokens) THEN <<>>
    ELSE (IF k > 1 /\ GapExceeds(tokens[k - 1], tokens[k],
                                  IF byLeft THEN tokens[k - 1] ELSE tokens[k])
          THEN <<" ">> ELSE <<>>)
         \o tokens[k].str \o SpacedTexts(tokens, k + 1, byLeft)

\* C16 as stated: the line's text is the texts of its tokens, left to right,
\* with one space between two adjacent tokens iff their gap exceeds one
\* average character width of the LEFT token.
C16_RenderSingleAsStated ==
    rndText # <<>> => rndText = SpacedTexts(rndLine, 1, TRUE) \o <<NL>>

\* C16 as amended: the same, the gap compared with one average character
\* width of the RIGHT token.
C16_RenderSingle ==
    rndText # <<>> => rndText = SpacedTexts(rndLine, 1, FALSE) \o <<NL>>

\* C16, the case: "G", "Go" and "G" at gaps of 7: no space before "Go" (10
\* per character), a space before the last "G" (5 per character).
C16_Witness ==
    /\ rndLine = << Item(Str_G, 0, 100, 5), Item(Str_Go, 12, 100, 20),
                    Item(Str_G, 39, 100, 5) >>
    /\ rndText = <<"G","G","o"," ","G", NL>>

-----------------------------------------------------------------------------
(* The state machine: the grouping of a page's tokens into lines           *)
(* (SpecGroup). A page holds up to MaxTokens tokens as the merger returns  *)
(* them, in ascending x (x = 100, 200, ...: no two are close enough to     *)
(* merge), each on one of the baselines GroupYs.                           *)

GroupYs == {0, 4, 5, 6, 8, 12}

MaxTokens == 3

GroupPages ==
    { [k \in 1..Len(ys) |-> Item(Str_G, 100 * k, ys[k], 5)] :
        ys \in UNION { [1..n -> GroupYs] : n \in 1..MaxTokens } }

InitGroup ==
    /\ ClsIdle
    /\ PdfIdle
    /\ clsLog = <<>>
    /\ mrgItems = <<>>
    /\ mrgSorted = <<>>
    /\ mrgIndex = 0
    /\ mrgMerged = <<>>
    /\ mrgCurrent = NoItem
    /\ mrgStep = NoMergeStep
    /\ grpItems \in { mergeAdjacentTextItems(rawItems) : rawItems \in GroupPages }
    /\ grpLines = <<>>
    /\ rndLine = <<>>
    /\ rndText = <<>>
    /\ doc = <<>>
    /\ PairIdle
    /\ HooksIdle

\* Lines 194-214 for allItems = grpItems: rawLines, then classifiedLines.
GroupCall ==
    /\ grpLines = <<>>
    /\ grpLines' = ClassifiedLines(grpItems)
    /\ UNCHANGED <<grpItems, clsVars, pdfVars, callVars, mergeVars, renderVars, extractVars, pairVars, hookVars>>

NextGroup == GroupCall

SpecGroup == InitGroup /\ [][NextGroup]_vars

-----------------------------------------------------------------------------
(* Properties of the grouping into lines (SpecGroup)                       *)

Grouped == grpLines # <<>>

\* The places <<line, index>> of the classified lines.
LinePlaces == { pl \in (1..Len(grpLines)) \X (1..Len(grpItems)) :
                  pl[2] <= Len(grpLines[pl[1]].items) }

\* C17: the lines are in strictly descending y, the tokens of a line are in
\* ascending x, and every token of the page stands at exactly one place of
\* exactly one line (and no line holds anything else).
C17_GrouperOrdering ==
    Grouped =>
      /\ \A k \in 1..(Len(grpLines) - 1) : grpLines[k].y > grpLines[k + 1].y
      /\ \A k \in 1..Len(grpLines) :
            \A j \in 1..(Len(grpLines[k].items) - 1) :
                grpLines[k].items[j].x <= grpLines[k].items[j + 1].x
      /\ \A t \in 1..Len(grpItems) :
            Cardinality({ pl \in LinePlaces : grpLines[pl[1]].items[pl[2]] = grpItems[t] }) = 1
      /\ Cardinality(LinePlaces) = Len(grpItems)

\* C17, the case: tokens on y = 0, 8 and 4 in this order come out as the line
\* y = 8 with the second token and, after it, the line y = 0 with the first
\* and the third.
C17_Witness ==
    /\ Len(grpItems) = 3
    /\ grpItems[1].y = 0 /\ grpItems[2].y = 8 /\ grpItems[3].y = 4
    /\ Len(grpLines) = 2
    /\ grpLines[1].y = 8 /\ grpLines[1].items = <<grpItems[2]>>
    /\ grpLines[2].y = 0 /\ grpLines[2].items = <<grpItems[1], grpItems[3]>>

\* The lines whose bucket was created before the token t was placed (tokens
\* are placed in ascending x, and a bucket is created by its first token) and
\* whose key is within Y_TOLERANCE of t's y.
MatchingBefore(t) ==
    { m \in 1..Len(grpLines) :
        /\ grpLines[m].items[1].x < t.x
        /\ Abs(grpLines[m].y - t.y) < Y_TOLERANCE }

\* C20: the key of a line is the y of the first token placed in it; a token
\* is in the earliest-created bucket whose key is within 5 of its y, and
\* creates a bucket iff there is none; tokens with y = 0, 4, 8 in this order
\* give the two lines {0, 4} and {8}.
C20_FirstBucketWins ==
    Grouped =>
      /\ \A k \in 1..Len(grpLines) : grpLines[k].y = grpLines[k].items[1].y
      /\ \A pl \in LinePlaces :
            LET t == grpLines[pl[1]].items[pl[2]]
            IN  IF MatchingBefore(t) = {}
                THEN pl[2] = 1
                ELSE /\ pl[1] \in MatchingBefore(t)
                     /\ \A m \in MatchingBefore(t) :
                           grpLines[pl[1]].items[1].x <= grpLines[m].items[1].x
      /\ (/\ Len(grpItems) = 3
          /\ grpItems[1].y = 0 /\ grpItems[2].y = 4 /\ grpItems[3].y = 8)
         => /\ Len(grpLines) = 2
            /\ grpLines[1].items = <<grpItems[3]>>
            /\ grpLines[2].items = <<grpItems[1], grpItems[2]>>

\* C20, the case: tokens on y = 0, 6 and 4 in this order: the third joined
\* the bucket of key 0 (4 away), not the later bucket of key 6 (2 away).
C20_Witness ==
    /\ Len(grpItems) = 3
    /\ grpItems[1].y = 0 /\ grpItems[2].y = 6 /\ grpItems[3].y = 4
    /\ Len(grpLines) = 2
    /\ grpLines[1].y = 6 /\ grpLines[1].items = <<grpItems[2]>>
    /\ grpLines[2].y = 0 /\ grpLines[2].items = <<grpItems[1], grpItems[3]>>

\* C20, the example of the claim: y = 0, 4, 8 gave two lines.
C20_WitnessDrift ==
    /\ Len(grpItems) = 3
    /\ grpItems[1].y = 0 /\ grpItems[2].y = 4 /\ grpItems[3].y = 8
    /\ Len(grpLines) = 2
    /\ grpLines[1].y = 8
    /\ grpLines[2].y = 0

-----------------------------------------------------------------------------
(* The pair branch of the line loop (lines 227-279), statement by          *)
(* statement, on the couplets of pages of up to MaxChords chord tokens on  *)
(* the baseline y = 120 and up to MaxLyricTokens lyric tokens on the       *)
(* baseline y = 100. A chord token is "G" or the empty string (an item     *)
(* without glyphs, as a PDF's text content holds for markers); a lyric     *)
(* token is "is" (5 per character) or "Go" (10 per character).             *)

Str_None == << >>

ChordTexts == { Str_None, Str_G }
ChordXs == { 0, 12, 40 }

MaxChords == 2
MaxLyricTokens == 3

LyricShapes == { [str |-> Str_is, width |-> 10], [str |-> Str_Go, width |-> 20] }
LyricGaps == { 3, 4, 5 }

PairChordLines ==
    { [k \in 1..Len(cs) |-> Item(cs[k].str, cs[k].x, 120, 5 * Len(cs[k].str))] :
        cs \in { c \in UNION { [1..n -> [str : ChordTexts, x : ChordXs]] : n \in 1..MaxChords } :
                   \A k \in 1..(Len(c) - 1) : c[k].x < c[k + 1].x } }

PairLyricLines ==
    { BuildLine(sh, 1, 0) :
        sh \in UNION { [1..n -> [shape : LyricShapes, gap : LyricGaps]] :
                         n \in 1..MaxLyricTokens } }

\* classifiedLines of the pages that consist of one couplet.
PairPages ==
    { ls \in { ClassifiedLines(mergeAdjacentTextItems(c \o l)) :
                 c \in PairChordLines, l \in PairLyricLines } :
        Len(ls) = 2 /\ isPair(ls, 1) }

InitPair ==
    /\ ClsIdle
    /\ PdfIdle
    /\ clsLog = <<>>
    /\ mrgItems = <<>>
    /\ mrgSorted = <<>>
    /\ mrgIndex = 0
    /\ mrgMerged = <<>>
    /\ mrgCurrent = NoItem
    /\ mrgStep = NoMergeStep
    /\ grpItems = <<>>
    /\ grpLines = <<>>
    /\ rndLine = <<>>
    /\ rndText = <<>>
    /\ doc = <<>>
    /\ \E ls \in PairPages : /\ pairChords = ls[1].items
                             /\ pairLyricItems = ls[2].items
    /\ pairPc = "lyric"
    /\ pairK = 1
    /\ pairString = <<>>
    /\ pairMap = <<>>
    /\ pairHasLast = FALSE
    /\ pairEndX = 0
    /\ pairCursor = 0
    /\ pairCols = <<>>
    /\ pairError = NoError
    /\ pairLast = NoLyricStep
    /\ HooksIdle

\* lastItemEndX + (itemStartX - lastItemEndX) / 2
SpaceX(lastItemEndX, itemStartX) == [n |-> lastItemEndX + itemStartX, d |-> 2]

\* One iteration of the loop over pass1_lyricItems (lines 240-255).
LyricStep ==
    /\ pairPc = "lyric"
    /\ pairK <= Len(pairLyricItems)
    /\ LET item  == pairLyricItems[pairK]
           space == LyricSpaceBefore(pairHasLast, pairEndX, item)
       IN  /\ pairString' = (IF space THEN Append(pairString, " ") ELSE pairString)
                               \o item.str
           /\ pairMap' = (IF space THEN Append(pairMap, SpaceX(pairEndX, item.x))
                                   ELSE pairMap)
                            \o CharXs(item)
           /\ pairHasLast' = TRUE
           /\ pairEndX' = item.x + item.width
           /\ pairLast' = [k |-> pairK, space |-> space, at |-> Len(pairString)]
    /\ pairK' = pairK + 1
    /\ UNCHANGED <<pairChords, pairLyricItems, pairPc, pairCursor, pairCols, pairError,
                   clsVars, pdfVars, callVars, mergeVars, groupVars, renderVars,
                   extractVars, hookVars>>

\* The end of the lyric loop: chordLineChars and the cursor (lines 257-260).
LyricDone ==
    /\ pairPc = "lyric"
    /\ pairK > Len(pairLyricItems)
    /\ pairPc' = "scan"
    /\ pairK' = 1
    /\ pairCursor' = 0
    /\ UNCHANGED <<pairChords, pairLyricItems, pairString, pairMap, pairHasLast, pairEndX,
                   pairCols, pairError, pairLast,
                   clsVars, pdfVars, callVars, mergeVars, groupVars, renderVars,
                   extractVars, hookVars>>

\* indexToXMap[lyricStringCursor] < chord.x; a read past the end gives
\* undefined, and undefined < x is false.
ScanOn ==
    /\ pairCursor < Len(pairMap)
    /\ QLess(pairMap[pairCursor + 1], pairChords[pairK].x)

\* One iteration of the while loop of the chord pairChords[pairK] (lines 261-266).
ScanStep ==
    /\ pairPc = "scan"
    /\ pairK <= Len(pairChords)
    /\ ScanOn
    /\ pairCursor' = pairCursor + 1
    /\ IF pairCursor + 1 = Len(pairMap)
       THEN /\ pairPc' = "thrown"
            /\ pairError' = UnplaceableError(pairChords[pairK].str)
       ELSE UNCHANGED <<pairPc, pairError>>
    /\ UNCHANGED <<pairChords, pairLyricItems, pairK, pairString, pairMap, pairHasLast,
                   pairEndX, pairCols, pairLast,
                   clsVars, pdfVars, callVars, mergeVars, groupVars, renderVars,
                   extractVars, hookVars>>

\* The write loop with a cursor that each chord starts again from 0.
WriteChordReset ==
    /\ pairPc = "scan"
    /\ pairK <= Len(pairChords)
    /\ ~ScanOn
    /\ pairCols' = Append(pairCols, pairCursor)
    /\ IF Len(pairChords[pairK].str) > 0
       THEN /\ pairPc' = "thrown"
            /\ pairError' = ReferenceError
            /\ UNCHANGED <<pairK, pairCursor>>
       ELSE /\ pairK' = pairK + 1
            /\ pairPc' = IF pairK = Len(pairChords) THEN "emitted" ELSE "scan"
            /\ pairCursor' = 0
            /\ UNCHANGED pairError
    /\ UNCHANGED <<pairChords, pairLyricItems, pairString, pairMap, pairHasLast, pairEndX,
                   pairLast,
                   clsVars, pdfVars, callVars, mergeVars, groupVars, renderVars,
                   extractVars, hookVars>>

\* The while loop of the chord pairChords[pairK] has ended: its write loop
\* (lines 268-271), whose body reads the undeclared closestCharIndex once per
\* character of chord.text, then the next chord or, after the last one, the
\* two lines appended to pageText (lines 274-279).
WriteChord ==
    /\ pairPc = "scan"
    /\ pairK <= Len(pairChords)
    /\ ~ScanOn
    /\ pairCols' = Append(pairCols, pairCursor)
    /\ IF Len(pairChords[pairK].str) > 0
       THEN /\ pairPc' = "thrown"
            /\ pairError' = ReferenceError
            /\ UNCHANGED pairK
       ELSE /\ pairK' = pairK + 1
            /\ pairPc' = IF pairK = Len(pairChords) THEN "emitted" ELSE "scan"
            /\ UNCHANGED pairError
    /\ UNCHANGED <<pairChords, pairLyricItems, pairString, pairMap, pairHasLast, pairEndX,
                   pairCursor, pairLast,
                   clsVars, pdfVars, callVars, mergeVars, groupVars, renderVars,
                   extractVars, hookVars>>

NextPair == LyricStep \/ LyricDone \/ ScanStep \/ WriteChord

SpecPair == InitPair /\ [][NextPair]_vars

-----------------------------------------------------------------------------
(* Properties of SpecPair                                                  *)

\* a = b
QEq(a, b) == a.n * b.d = b.n * a.d

\* The gap before the token items[k] exceeds 0.4 of its own average
\* character width, width / max(1, len(text)).
LyricGapExceeds(items, k) ==
    LET item == items[k]
        prev == items[k - 1]
    IN  (item.x - (prev.x + prev.width)) * 10 * (IF Len(item.str) > 1 THEN Len(item.str) ELSE 1)
            > 4 * item.width

\* The lyric text and the x of each of its characters after the first k
\* tokens: a space at the midpoint between two tokens iff k > 1 and the gap
\* exceeds; character c of a token at startX + c * (width / max(1, len(text))).
RECURSIVE LyricPrefix(_, _)
LyricPrefix(items, k) ==
    IF k = 0 THEN [str |-> <<>>, map |-> <<>>]
    ELSE LET before == LyricPrefix(items, k - 1)
             item   == items[k]
             len1   == IF Len(item.str) > 1 THEN Len(item.str) ELSE 1
             space  == k > 1 /\ LyricGapExceeds(items, k)
             mid    == [n |-> items[k - 1].x + items[k - 1].width + item.x, d |-> 2]
         IN  [str |-> before.str \o (IF space THEN <<" ">> ELSE <<>>) \o item.str,
              map |-> before.map \o (IF space THEN <<mid>> ELSE <<>>)
                        \o [c \in 1..Len(item.str) |->
                              [n |-> item.x * len1 + (c - 1) * item.width, d |-> len1]]]

\* C21: after any prefix of the lyric tokens, indexToXMap is as long as
\* lyricString; a single space, mapped to the midpoint between the two tokens,
\* stands before a token iff it has a predecessor and its start x minus the
\* predecessor's end x exceeds 0.4 of its own average character width; and
\* character c of a token is mapped to startX + c * (width / max(1, len(text))).
C21_LyricParallel ==
    LET expected == LyricPrefix(pairLyricItems, pairLast.k)
    IN  /\ Len(pairMap) = Len(pairString)
        /\ pairString = expected.str
        /\ Len(pairMap) = Len(expected.map)
        /\ \A j \in 1..Len(pairMap) : QEq(pairMap[j], expected.map[j])
        /\ pairPc = "lyric" => pairLast.k = pairK - 1

\* C21, the cases: a token after a gap that exceeds (a space, at the
\* midpoint), and the token "Go" (10 per character) after a gap of exactly
\* 4 = 0.4 * 10 (no space).
C21_Witness ==
    /\ pairLast.k > 1
    /\ pairLast.space
    /\ pairString[pairLast.at + 1] = " "
    /\ Len(pairMap) > pairLast.at + 2

C21_WitnessAtThreshold ==
    /\ pairLast.k > 1
    /\ ~pairLast.space
    /\ LET item == pairLyricItems[pairLast.k]
           prev == pairLyricItems[pairLast.k - 1]
       IN  (item.x - (prev.x + prev.width)) * 10 * Len(item.str) = 4 * item.width

\* sequence s never decreases
NonDecreasing(s) == \A k \in 1..(Len(s) - 1) : s[k] <= s[k + 1]

\* C23: within one couplet the placement cursor starts at 0, never
\* decreases and is not reset between chord tokens: the scan of each chord
\* resumes where the scan of the chord before it stopped, and the columns at
\* which the scans stop never decrease.
C23_MonotonicCursor ==
    [][ /\ pairCursor' >= pairCursor
        /\ (pairPc = "lyric" /\ pairPc' = "scan") => pairCursor' = 0
        /\ (pairPc = "scan" /\ pairK' # pairK) => pairCursor' = pairCursor
        /\ NonDecreasing(pairCols') ]_vars

\* C23, the case: the scan of a second chord went on from the column, past
\* 0, where the scan of the first chord had stopped.
C23_Witness ==
    /\ Len(pairCols) = 2
    /\ 0 < pairCols[1]
    /\ pairCols[1] < pairCols[2]

-----------------------------------------------------------------------------
(* Further properties of SpecGroup                                         *)

\* C26: the representative y of any two distinct lines differ by at least
\* 5, and every token of a line has |token.y - line.y| < 5 (so a token
\* exactly 5 away from every representative opens a line of its own).
C26_LineSeparation ==
    Grouped =>
      /\ \A a, b \in 1..Len(grpLines) :
            a # b => Abs(grpLines[a].y - grpLines[b].y) >= 5
      /\ \A pl \in LinePlaces :
            Abs(grpLines[pl[1]].items[pl[2]].y - grpLines[pl[1]].y) < 5

\* C26, the case: tokens on y = 0, 5 and 4 in this order: the second, exactly
\* 5 away from the only representative, opened the line y = 5; the third
\* joined the line y = 0.
C26_Witness ==
    /\ Len(grpItems) = 3
    /\ grpItems[1].y = 0 /\ grpItems[2].y = 5 /\ grpItems[3].y = 4
    /\ Len(grpLines) = 2
    /\ grpLines[1].y = 5 /\ grpLines[1].items = <<grpItems[2]>>
    /\ grpLines[2].y = 0 /\ grpLines[2].items = <<grpItems[1], grpItems[3]>>

-----------------------------------------------------------------------------
(* Further properties of mergeAdjacentTextItems (SpecMerge)                *)

\* The texts of the items from index k on, one after the other.
RECURSIVE ConcatTexts(_, _)
ConcatTexts(items, k) ==
    IF k > Len(items) THEN <<>> ELSE items[k].str \o ConcatTexts(items, k + 1)

\* The items whose indices are in S in ascending x, by repeated selection of
\* the first item of least x.
RECURSIVE AscendingX(_, _)
AscendingX(items, S) ==
    IF S = {} THEN <<>>
    ELSE LET k == CHOOSE m \in S : \A n \in S :
                      items[m].x < items[n].x \/ (items[m].x = items[n].x /\ m <= n)
         IN  <<items[k]>> \o AscendingX(items, S \ {k})

\* The tokens are runs of the fragments: token j is made of the fragments
\* from[j] .. from[j + 1] - 1, has the x of the first of them and their texts
\* one after the other.
MadeOfRuns(tokens, fragments) ==
    \E from \in [1..Len(tokens) -> 1..Len(fragments)] :
        /\ Len(tokens) > 0 => from[1] = 1
        /\ \A j \in 1..(Len(tokens) - 1) : from[j] < from[j + 1]
        /\ \A j \in 1..Len(tokens) :
              LET last == IF j = Len(tokens) THEN Len(fragments) ELSE from[j + 1] - 1
              IN  /\ tokens[j].x = fragments[from[j]].x
                  /\ tokens[j].str = ConcatTexts(SubSeq(fragments, from[j], last), 1)

\* C27: the tokens the merger returns are in ascending x, are no more than
\* the fragments, their texts one after the other are the texts of the
\* fragments in ascending x one after the other, each token has the x of the
\* first fragment it is made of, and the fragments passed in are not changed.
C27_MergerConservesText ==
    /\ [](mrgStep.kind = "return" =>
            LET fragments == AscendingX(mrgItems, 1..Len(mrgItems))
            IN  /\ \A j \in 1..(Len(mrgMerged) - 1) : mrgMerged[j].x <= mrgMerged[j + 1].x
                /\ Len(mrgMerged) <= Len(mrgItems)
                /\ ConcatTexts(mrgMerged, 1) = ConcatTexts(fragments, 1)
                /\ MadeOfRuns(mrgMerged, fragments))
    /\ [][mrgItems' = mrgItems]_vars

\* C27, the case: three fragments passed in out of x order came back as two
\* tokens.
C27_Witness ==
    /\ mrgStep.kind = "return"
    /\ Len(mrgItems) = 3
    /\ mrgItems[1].x > mrgItems[2].x
    /\ Len(mrgMerged) = 2

-----------------------------------------------------------------------------
(* The App component (src/hooks/usePitchDetector.ts, lines 104-412): its   *)
(* songs, its sets and the performance mode. A state cell of useState or   *)
(* useLocalStorage is a variable; a handler, with the state updates it     *)
(* queues, is one action, and runs on the state of the latest render. An   *)
(* id is the Date.now() it was made from; 0 stands for null.               *)

\* The clock stops the creation of songs and sets at MaxNow.
MaxNow == 4

\* Array.prototype.indexOf, counting from 0; -1 when e is not in s.
IndexOf(s, e) ==
    IF \E k \in 1..Len(s) : s[k] = e
    THEN (CHOOSE k \in 1..Len(s) : s[k] = e /\ \A j \in 1..(k - 1) : s[j] # e) - 1
    ELSE -1

\* Array.prototype.filter(x => x !== e)
Without(s, e) == SelectSeq(s, LAMBDA x : x # e)

\* s.splice(index, 1), for an index of s counted from 0: what is left in s.
SpliceOut(s, index) == SubSeq(s, 1, index) \o SubSeq(s, index + 2, Len(s))

\* s.splice(index, 0, e), for an index >= 0 counted from 0: an index beyond
\* the end inserts at the end.
SpliceIn(s, index, e) ==
    LET at == IF index > Len(s) THEN Len(s) ELSE index
    IN  SubSeq(s, 1, at) \o <<e>> \o SubSeq(s, at + 1, Len(s))

SongIdsOf(list) == { list[k].id : k \in 1..Len(list) }
SetIdsOf(list) == { list[k].id : k \in 1..Len(list) }

\* sets.find(s => s.id === id): its place in sets, 0 when there is none.
FindSet(list, id) ==
    IF \E k \in 1..Len(list) : list[k].id = id
    THEN CHOOSE k \in 1..Len(list) : list[k].id = id /\ \A j \in 1..(k - 1) : list[j].id # id
    ELSE 0

\* activeSong is not null (line 129).
HasActiveSong == activeSongId \in SongIdsOf(songs)

\* PerformanceView, which covers the window, is rendered (line 397).
PerformanceViewShown == HasActiveSong /\ isPerformanceMode

InitApp ==
    /\ ClsIdle
    /\ PdfIdle
    /\ StagesIdle
    /\ HooksIdle

\* handleNewSong()
handleNewSong ==
    /\ ~PerformanceViewShown
    /\ now < MaxNow
    /\ now' = now + 1
    /\ songs' = <<[id |-> now']>> \o songs
    /\ activeSongId' = now'
    /\ activeSetId' = 0
    /\ appLast' = "newSong"
    /\ UNCHANGED <<sets, isPerformanceMode, performanceContext, clsVars, pdfVars, stageVars,
                   bookVars, micVars>>

\* handleDeleteSong(id) that leaves the sets as they are.
DeleteSongOnly(id) ==
    /\ songs' = SelectSeq(songs, LAMBDA song : song.id # id)
    /\ sets' = sets
    /\ activeSongId' = IF activeSongId = id THEN 0 ELSE activeSongId

\* handleDeleteSong(id): the state updates
DeleteSong(id) ==
    /\ songs' = SelectSeq(songs, LAMBDA song : song.id # id)
    /\ sets' = [k \in 1..Len(sets) |-> [sets[k] EXCEPT !.songIds = Without(@, id)]]
    /\ activeSongId' = IF activeSongId = id THEN 0 ELSE activeSongId

\* handleDeleteSong(id), from the delete button of a song of the list
handleDeleteSong ==
    /\ ~PerformanceViewShown
    /\ \E id \in SongIdsOf(songs) :
          /\ DeleteSong(id)
          /\ appLast' = "deleteSong"
    /\ UNCHANGED <<activeSetId, isPerformanceMode, performanceContext, now,
                   clsVars, pdfVars, stageVars,
                   bookVars, micVars>>

\* handleSelectSong(id, contextSetId), from a song of the list (no
\* contextSetId) or from a song shown in a set
handleSelectSong ==
    /\ ~PerformanceViewShown
    /\ \E id \in SongIdsOf(songs) :
       \E contextSetId \in {0} \cup { sets[k].id : k \in { j \in 1..Len(sets) :
                                                          IndexOf(sets[j].songIds, id) # -1 } } :
          /\ activeSongId' = id
          /\ activeSetId' = contextSetId
          /\ appLast' = "selectSong"
    /\ UNCHANGED <<songs, sets, isPerformanceMode, performanceContext, now,
                   clsVars, pdfVars, stageVars,
                   bookVars, micVars>>

\* handleShowWelcome()
handleShowWelcome ==
    /\ ~PerformanceViewShown
    /\ activeSongId' = 0
    /\ activeSetId' = 0
    /\ appLast' = "showWelcome"
    /\ UNCHANGED <<songs, sets, isPerformanceMode, performanceContext, now,
                   clsVars, pdfVars, stageVars,
                   bookVars, micVars>>

\* handleNewSet()
handleNewSet ==
    /\ ~PerformanceViewShown
    /\ now < MaxNow
    /\ now' = now + 1
    /\ sets' = <<[id |-> now', songIds |-> <<>>]>> \o sets
    /\ appLast' = "newSet"
    /\ UNCHANGED <<songs, activeSongId, activeSetId, isPerformanceMode, performanceContext,
                   clsVars, pdfVars, stageVars,
                   bookVars, micVars>>

\* handleDeleteSet(id)
handleDeleteSet ==
    /\ ~PerformanceViewShown
    /\ \E id \in SetIdsOf(sets) :
          /\ sets' = SelectSeq(sets, LAMBDA set : set.id # id)
          /\ activeSetId' = IF activeSetId = id THEN 0 ELSE activeSetId
          /\ appLast' = "deleteSet"
    /\ UNCHANGED <<songs, activeSongId, isPerformanceMode, performanceContext, now,
                   clsVars, pdfVars, stageVars,
                   bookVars, micVars>>

\* handleAddSongToSet(songId, setId): the state update
AddSongToSet(songId, setId) ==
    sets' = [k \in 1..Len(sets) |->
               IF sets[k].id = setId /\ IndexOf(sets[k].songIds, songId) = -1
               THEN [sets[k] EXCEPT !.songIds = Append(@, songId)]
               ELSE sets[k]]

\* handleAddSongToSet(songId, setId), from a song of the list dropped on a set
handleAddSongToSet ==
    /\ ~PerformanceViewShown
    /\ \E songId \in SongIdsOf(songs), setId \in SetIdsOf(sets) :
          /\ AddSongToSet(songId, setId)
          /\ appLast' = "addSongToSet"
    /\ UNCHANGED <<songs, activeSongId, activeSetId, isPerformanceMode, performanceContext,
                   now, clsVars, pdfVars, stageVars,
                   bookVars, micVars>>

\* handleRemoveSongFromSet(songId, setId), from the button of a song shown in
\* a set
handleRemoveSongFromSet ==
    /\ ~PerformanceViewShown
    /\ \E k \in 1..Len(sets) :
       \E songId \in { sets[k].songIds[j] : j \in 1..Len(sets[k].songIds) } \cap SongIdsOf(songs) :
          /\ sets' = [m \in 1..Len(sets) |->
                        IF sets[m].id = sets[k].id
                        THEN [sets[m] EXCEPT !.songIds = Without(@, songId)]
                        ELSE sets[m]]
          /\ appLast' = "removeSongFromSet"
    /\ UNCHANGED <<songs, activeSongId, activeSetId, isPerformanceMode, performanceContext,
                   now, clsVars, pdfVars, stageVars,
                   bookVars, micVars>>

\* A reorder that puts the song at newIndex and leaves it where it was.
ReorderedCopy(songIds, songId, newIndex) ==
    IF IndexOf(songIds, songId) > -1 THEN SpliceIn(songIds, newIndex, songId) ELSE songIds

\* The new songIds of handleReorderSongsInSet (lines 301-307).
Reordered(songIds, songId, newIndex) ==
    LET oldIndex == IndexOf(songIds, songId)
    IN  IF oldIndex > -1
        THEN SpliceIn(SpliceOut(songIds, oldIndex), newIndex, songIds[oldIndex + 1])
        ELSE songIds

\* handleReorderSongsInSet(setId, songId, newIndex), from a song shown in a
\* set dragged onto another song shown in the same set
handleReorderSongsInSet ==
    /\ ~PerformanceViewShown
    /\ \E k \in 1..Len(sets) :
       \E from \in 1..Len(sets[k].songIds), newIndex \in 0..(Len(sets[k].songIds) - 1) :
          /\ sets[k].songIds[from] \in SongIdsOf(songs)
          /\ sets[k].songIds[newIndex + 1] \in SongIdsOf(songs)
          /\ sets' = [m \in 1..Len(sets) |->
                        IF sets[m].id = sets[k].id
                        THEN [sets[m] EXCEPT !.songIds =
                                 Reordered(@, sets[k].songIds[from], newIndex)]
                        ELSE sets[m]]
          /\ appLast' = "reorderSongsInSet"
    /\ UNCHANGED <<songs, activeSongId, activeSetId, isPerformanceMode, performanceContext,
                   now, clsVars, pdfVars, stageVars,
                   bookVars, micVars>>

\* handleTogglePerformanceMode(), from the editor's button or, in the
\* performance view, from its exit
handleTogglePerformanceMode ==
    /\ HasActiveSong
    /\ IF ~isPerformanceMode
       THEN /\ LET at == FindSet(sets, activeSetId)
                   songIndex == IF at = 0 THEN -1 ELSE IndexOf(sets[at].songIds, activeSongId)
               IN  performanceContext' =
                      IF activeSetId # 0 /\ at # 0 /\ songIndex # -1
                      THEN [setId |-> activeSetId, songIndex |-> songIndex]
                      ELSE performanceContext
            /\ isPerformanceMode' = TRUE
       ELSE /\ isPerformanceMode' = FALSE
            /\ performanceContext' = NoContext
    /\ appLast' = "togglePerformanceMode"
    /\ UNCHANGED <<songs, sets, activeSongId, activeSetId, now, clsVars, pdfVars, stageVars,
                   bookVars, micVars>>

\* The index a navigation moves to.
NewIndex(direction) ==
    IF direction = "next" THEN performanceContext.songIndex + 1
    ELSE performanceContext.songIndex - 1

\* The test of line 340 left out.
InRangeAny(newIndex, songIds) == TRUE

\* newIndex >= 0 && newIndex < set.songIds.length
InRange(newIndex, songIds) == newIndex >= 0 /\ newIndex < Len(songIds)

\* handlePerformanceNavigate(direction), from onNext and onPrev of the
\* performance view, which has them when the context and its set exist
handlePerformanceNavigate ==
    /\ PerformanceViewShown
    /\ performanceContext # NoContext
    /\ FindSet(sets, performanceContext.setId) # 0
    /\ \E direction \in {"next", "prev"} :
          LET set == sets[FindSet(sets, performanceContext.setId)]
              newIndex == NewIndex(direction)
          IN  /\ IF InRange(newIndex, set.songIds)
                 THEN /\ activeSongId' = (IF newIndex + 1 \in 1..Len(set.songIds)
                                          THEN set.songIds[newIndex + 1] ELSE 0)
                      /\ performanceContext' = [setId |-> performanceContext.setId,
                                                songIndex |-> newIndex]
                 ELSE UNCHANGED <<activeSongId, performanceContext>>
              /\ appLast' = direction
    /\ UNCHANGED <<songs, sets, activeSetId, isPerformanceMode, now,
                   clsVars, pdfVars, stageVars,
                   bookVars, micVars>>

NextApp ==
    \/ handleNewSong
    \/ handleDeleteSong
    \/ handleSelectSong
    \/ handleShowWelcome
    \/ handleNewSet
    \/ handleDeleteSet
    \/ handleAddSongToSet
    \/ handleRemoveSongFromSet
    \/ handleReorderSongsInSet
    \/ handleTogglePerformanceMode
    \/ handlePerformanceNavigate

SpecApp == InitApp /\ [][NextApp]_vars

-----------------------------------------------------------------------------
(* Properties of the App (SpecApp)                                         *)

\* The ids a set lists.
Listed(set) == { set.songIds[j] : j \in 1..Len(set.songIds) }

\* C24: every id in every set's songIds is the id of an existing song; and
\* handleDeleteSong(id) removes id, and nothing else, from the song list,
\* removes it from every set, and clears activeSongId when it was id.
C24_DeleteCascades ==
    /\ [](\A k \in 1..Len(sets) : Listed(sets[k]) \subseteq SongIdsOf(songs))
    /\ [][appLast' = "deleteSong" =>
            \E id \in SongIdsOf(songs) :
               /\ SongIdsOf(songs') = SongIdsOf(songs) \ {id}
               /\ Len(songs') = Len(songs) - 1
               /\ \A k \in 1..Len(sets') : id \notin Listed(sets'[k])
               /\ activeSongId = id => activeSongId' = 0
               /\ activeSongId # id => activeSongId' = activeSongId]_vars

\* C24, the case: a song was deleted while a set lists a song, and
\* activeSongId is null.
C24_Witness ==
    /\ appLast = "deleteSong"
    /\ activeSongId = 0
    /\ songs # <<>>
    /\ \E k \in 1..Len(sets) : sets[k].songIds # <<>>

\* The number of places of s that hold e.
CountOf(s, e) == Cardinality({ k \in 1..Len(s) : s[k] = e })

IsPermutation(s, t) ==
    /\ Len(s) = Len(t)
    /\ \A k \in 1..Len(s) : CountOf(s, s[k]) = CountOf(t, s[k])

\* C28: no set lists an id twice; and handleReorderSongsInSet leaves the
\* set's songIds a permutation of what it was and every other set as it was.
C28_NoDuplicateInSet ==
    /\ [](\A k \in 1..Len(sets) : \A e \in Listed(sets[k]) : CountOf(sets[k].songIds, e) = 1)
    /\ [][appLast' = "reorderSongsInSet" =>
            /\ Len(sets') = Len(sets)
            /\ \E k \in 1..Len(sets) :
                  /\ sets'[k].id = sets[k].id
                  /\ IsPermutation(sets'[k].songIds, sets[k].songIds)
                  /\ \A m \in 1..Len(sets) : m # k => sets'[m] = sets[m]]_vars

\* C28, the case: a reorder in one of two sets that list two songs each.
C28_Witness ==
    /\ appLast = "reorderSongsInSet"
    /\ Len(sets) = 2
    /\ Len(sets[1].songIds) = 2
    /\ Len(sets[2].songIds) = 2
    /\ sets[1].songIds # sets[2].songIds

\* C29: in performance mode entered from a set, songIndex is an index of the
\* set's songIds and activeSongId is the id at it; a 'next' at the last song
\* and a 'prev' at the first change nothing; the exit clears the context.
C29_NavigationInBounds ==
    /\ []((isPerformanceMode /\ performanceContext # NoContext) =>
            /\ FindSet(sets, performanceContext.setId) # 0
            /\ LET set == sets[FindSet(sets, performanceContext.setId)]
               IN  /\ 0 <= performanceContext.songIndex
                   /\ performanceContext.songIndex < Len(set.songIds)
                   /\ activeSongId = set.songIds[performanceContext.songIndex + 1])
    /\ [][LET set == sets[FindSet(sets, performanceContext.setId)]
          IN  /\ (appLast' = "next" /\ performanceContext.songIndex = Len(set.songIds) - 1)
                    => UNCHANGED <<songs, sets, activeSongId, activeSetId, isPerformanceMode,
                                   performanceContext>>
              /\ (appLast' = "prev" /\ performanceContext.songIndex = 0)
                    => UNCHANGED <<songs, sets, activeSongId, activeSetId, isPerformanceMode,
                                   performanceContext>>
              /\ (appLast' = "togglePerformanceMode" /\ isPerformanceMode)
                    => (~isPerformanceMode' /\ performanceContext' = NoContext)]_vars

\* C29, the cases: a 'next' that arrived at the last of three songs; and a
\* 'next' in a set of one song, which left the index at 0.
C29_Witness ==
    /\ isPerformanceMode
    /\ appLast = "next"
    /\ performanceContext.songIndex = 2
    /\ Len(sets[FindSet(sets, performanceContext.setId)].songIds) = 3

C29_WitnessStay ==
    /\ isPerformanceMode
    /\ appLast = "next"
    /\ performanceContext.songIndex = 0
    /\ Len(sets[FindSet(sets, performanceContext.setId)].songIds) = 1

-----------------------------------------------------------------------------
(* useChordBook (src/services/geminiService.ts, lines 631-680): the chord  *)
(* book and addChord                                                       *)

Str_A  == <<"A">>
Str_Am == <<"A","m">>
Str_Bb == <<"B","b">>
Str_C  == <<"C">>

ChordNames == { Str_A, Str_Am, Str_Bb, Str_C }

MaxAddCalls == 4

\* The UTF-16 code unit of a letter.
CharCode(c) ==
    IF \E k \in 1..26 : UpperLetters[k] = c
    THEN 64 + (CHOOSE k \in 1..26 : UpperLetters[k] = c)
    ELSE 96 + (CHOOSE k \in 1..26 : LowerLetters[k] = c)

\* a < b for two strings: by code units, a proper prefix first.
RECURSIVE StrBefore(_, _)
StrBefore(a, b) ==
    IF b = <<>> THEN FALSE
    ELSE IF a = <<>> THEN TRUE
    ELSE IF CharCode(Head(a)) # CharCode(Head(b)) THEN CharCode(Head(a)) < CharCode(Head(b))
    ELSE StrBefore(Tail(a), Tail(b))

RECURSIVE InsertByCode(_, _)
InsertByCode(sorted, e) ==
    IF sorted = <<>> THEN <<e>>
    ELSE IF ~StrBefore(e, sorted[Len(sorted)]) THEN Append(sorted, e)
    ELSE Append(InsertByCode(SubSeq(sorted, 1, Len(sorted) - 1), e), sorted[Len(sorted)])

\* The array as it is, unsorted.
SortStringsNone(s) == s

\* Array.prototype.sort() without a comparator: stable, ascending by code units.
RECURSIVE SortStrings(_)
SortStrings(s) ==
    IF s = <<>> THEN <<>>
    ELSE InsertByCode(SortStrings(SubSeq(s, 1, Len(s) - 1)), s[Len(s)])

\* The updater addChord passes to setChordBook, applied to prev.
Toggled(prev, chordName) ==
    IF IndexOf(prev, chordName) # -1
    THEN Without(prev, chordName)
    ELSE SortStrings(Append(prev, chordName))

InitBook ==
    /\ ClsIdle
    /\ PdfIdle
    /\ StagesIdle
    /\ AppIdle
    /\ BookIdle
    /\ MicIdle

\* addChord(chordName)
addChord ==
    /\ Len(bookLog) < MaxAddCalls
    /\ \E chordName \in ChordNames :
          /\ chordBook' = Toggled(chordBook, chordName)
          /\ bookLog' = Append(bookLog, [chordName |-> chordName, prev |-> chordBook,
                                         next |-> Toggled(chordBook, chordName)])
    /\ UNCHANGED <<clsVars, pdfVars, stageVars, appVars, micVars>>

NextBook == addChord

SpecBook == InitBook /\ [][NextBook]_vars

-----------------------------------------------------------------------------
(* Properties of useChordBook (SpecBook)                                   *)

Holds(book, name) == \E k \in 1..Len(book) : book[k] = name

\* Ascending by code units, no name twice.
SortedNoDuplicate(book) == \A k \in 1..(Len(book) - 1) : StrBefore(book[k], book[k + 1])

\* C25: after addChord(c), c is in the book iff it was not in it before and
\* every other name is in it iff it was before; and two calls addChord(c) in
\* a row on a sorted, duplicate-free book give the book back as it was.
C25_AddChordToggles ==
    /\ \A k \in 1..Len(bookLog) :
          /\ Holds(bookLog[k].next, bookLog[k].chordName)
                <=> ~Holds(bookLog[k].prev, bookLog[k].chordName)
          /\ \A name \in ChordNames \ {bookLog[k].chordName} :
                Holds(bookLog[k].next, name) <=> Holds(bookLog[k].prev, name)
          /\ \A j \in 1..Len(bookLog[k].next) : bookLog[k].next[j] \in ChordNames
    /\ \A k \in 1..(Len(bookLog) - 1) :
          (/\ bookLog[k + 1].chordName = bookLog[k].chordName
           /\ bookLog[k + 1].prev = bookLog[k].next
           /\ SortedNoDuplicate(bookLog[k].prev))
          => bookLog[k + 1].next = bookLog[k].prev
    /\ bookLog # <<>> => chordBook = bookLog[Len(bookLog)].next

\* C25, the case: "A" taken out of the book "A", "Am" and put in again.
C25_Witness ==
    /\ Len(bookLog) = 4
    /\ bookLog[3].chordName = Str_A
    /\ bookLog[4].chordName = Str_A
    /\ bookLog[3].prev = <<Str_A, Str_Am>>
    /\ bookLog[3].next = <<Str_Am>>
    /\ chordBook = <<Str_A, Str_Am>>

-----------------------------------------------------------------------------
(* usePitchDetector (src/hooks/usePitchDetector.ts, lines 4-102): the      *)
(* microphone. startListening is a step up to its await and a step from    *)
(* the settling of getUserMedia on; between the two any handler may run.   *)
(* The analyser, the source node and the animation frame follow the        *)
(* AudioContext and are left out.                                          *)

\* The hook acquires up to MaxStreams streams.
MaxStreams == 4

InitMic ==
    /\ ClsIdle
    /\ PdfIdle
    /\ StagesIdle
    /\ AppIdle
    /\ BookIdle
    /\ micSupported \in BOOLEAN
    /\ micMounted = TRUE
    /\ isListening = FALSE
    /\ micError = FALSE
    /\ micPending = 0
    /\ micStreams = <<>>
    /\ audioContexts = <<>>
    /\ streamRef = 0
    /\ audioContextRef = 0
    /\ micStopped = FALSE

\* stopListening(), lines 77-83. The set states stay as they are once the
\* component is unmounted.
stopListening ==
    /\ micStreams' = IF streamRef # 0 THEN [micStreams EXCEPT ![streamRef] = FALSE]
                     ELSE micStreams
    /\ audioContexts' = IF audioContextRef # 0 /\ audioContexts[audioContextRef] # "closed"
                        THEN [audioContexts EXCEPT ![audioContextRef] = "closed"]
                        ELSE audioContexts
    /\ isListening' = FALSE
    /\ micStopped' = TRUE
    /\ UNCHANGED <<streamRef, audioContextRef>>

\* startListening() up to the await of line 56, or to its end in a browser
\* without getUserMedia
startListening ==
    /\ micStopped' = FALSE
    /\ IF micSupported
       THEN /\ micPending' = micPending + 1
            /\ micError' = FALSE
       ELSE /\ micError' = TRUE
            /\ UNCHANGED micPending
    /\ UNCHANGED <<isListening, micStreams, audioContexts, streamRef, audioContextRef>>

\* toggleListening(), from the microphone button
toggleListening ==
    /\ micMounted
    /\ IF isListening
       THEN /\ stopListening
            /\ UNCHANGED <<micPending, micError>>
       ELSE /\ micSupported => micPending + Len(micStreams) < MaxStreams
            /\ startListening
    /\ UNCHANGED <<micSupported, micMounted, clsVars, pdfVars, stageVars, appVars, bookVars>>

\* startListening() from the fulfilment of getUserMedia on (lines 56-65)
GetUserMediaFulfilled ==
    /\ micPending > 0
    /\ micPending' = micPending - 1
    /\ micStreams' = Append(micStreams, TRUE)
    /\ streamRef' = Len(micStreams) + 1
    /\ audioContexts' = Append(audioContexts, "running")
    /\ audioContextRef' = Len(audioContexts) + 1
    /\ isListening' = IF micMounted THEN TRUE ELSE isListening
    /\ UNCHANGED <<micSupported, micMounted, micError, micStopped,
                   clsVars, pdfVars, stageVars, appVars, bookVars>>

\* startListening() from the rejection of getUserMedia on (lines 66-70)
GetUserMediaRejected ==
    /\ micPending > 0
    /\ micPending' = micPending - 1
    /\ micError' = IF micMounted THEN TRUE ELSE micError
    /\ isListening' = IF micMounted THEN FALSE ELSE isListening
    /\ UNCHANGED <<micSupported, micMounted, micStreams, audioContexts, streamRef,
                   audioContextRef, micStopped,
                   clsVars, pdfVars, stageVars, appVars, bookVars>>

\* The cleanup of the effect of lines 94-99, when the component unmounts
Unmount ==
    /\ micMounted
    /\ micMounted' = FALSE
    /\ stopListening
    /\ UNCHANGED <<micSupported, micPending, micError,
                   clsVars, pdfVars, stageVars, appVars, bookVars>>

NextMic == toggleListening \/ GetUserMediaFulfilled \/ GetUserMediaRejected \/ Unmount

SpecMic == InitMic /\ [][NextMic]_vars

-----------------------------------------------------------------------------
(* Properties of usePitchDetector (SpecMic)                                *)

\* C30: once stopListening has run (by the toggle or by the cleanup at
\* unmount), startListening was not called after it and no call of
\* startListening is still awaiting getUserMedia, no stream the hook acquired
\* has live tracks and isListening is false.
C30_MicrophoneReleased ==
    (micStopped /\ micPending = 0) =>
        /\ \A k \in 1..Len(micStreams) : ~micStreams[k]
        /\ ~isListening

====
